---------------------------- MODULE Spec2Model ----------------------------
(***************************************************************************)
(* A model of the p-fi ledger transaction engine (app/logic/ledger.py),    *)
(* the statement import (app/blueprints/ledger_upload.py) and the plan     *)
(* engine (app/logic/plan_engine.py).                                      *)
(*                                                                         *)
(* Money.  The program computes with Python floats.  The model computes    *)
(* with exact decimals: every currency value is an integer number of       *)
(* mills (1/1000 of the currency unit), so that round(x, 2) is a real      *)
(* conversion (to a multiple of 10 mills) and not the identity.  Binary    *)
(* round-off of floats is outside the model.                               *)
(*                                                                         *)
(* Names.  A name is a sequence of one-character strings, so that          *)
(* str.strip() is computed and not assumed.  None and "" are both the      *)
(* empty sequence: every lookup in the program reads a name through        *)
(* (name or "").                                                           *)
(*                                                                         *)
(* Optional numbers (principal_portion, interest_portion, balance_after)   *)
(* are <<>> for None and <<v>> for the number v.                           *)
(***************************************************************************)
EXTENDS Integers, Sequences, FiniteSets, TLC

VARIABLES
    l_snap,     \* apply_transaction's argument `snapshot`, as the caller holds it
    l_tx,       \* apply_transaction's argument `tx`
    l_res,      \* what apply_transaction did: see apply_transaction below
    l_rev,      \* the snapshot reverse_transaction returned
    l_pc,       \* "start" | "applied" | "reversed"
    st_index,   \* the store's ledger/index.json: a list of index rows
    st_entries, \* the store's ledger/entries/<id>.json: entry id -> entry
    imp_last,   \* the last upload_ledger_csv: its file, its counts, the index
                \* it found and the file of the upload before it
    st_latest,  \* the store's latest.json: the current snapshot
    st_snapshots, \* the store's snapshots/<id>.json: snapshot id -> snapshot
    st_deleted, \* the store's ledger/deleted/<id>.json: entry id -> entry
    st_clock,   \* utcnow() in whole seconds
    st_last,    \* the last create_entry, delete_entry or revert_to_snapshot:
                \* its argument, its outcome and the store it found
    st_ops,     \* the number of such operations so far
    p_snap,     \* compute_plan's argument `snapshot`
    p_plan,     \* the plan compute_plan returned
    s_args,     \* simulate_debt_payoff's arguments
    s_items,    \* its list `items`
    s_pay,      \* its variable `pay`
    s_months,   \* its variable `months`
    s_interest, \* its variable `total_interest`
    s_lump,     \* its variable `lump_applied`
    s_pc,       \* "start" | "loop" | "done"
    s_result,   \* what it returned
    e_args,     \* _months_to_payoff's arguments
    e_result,   \* what it returned or raised
    c_reqs,     \* the create_entry requests running side by side: for each
                \* its form, its position and its local variables
    w_receipts, \* the store's rentals/receipts.json: a list of receipts
    w_markers,  \* the ids of the store's webhooks/stripe/processed/<id>.json
    w_reqs      \* the stripe_webhook deliveries so far: for each its event,
                \* its position and its local variables

ledger_vars == <<l_snap, l_tx, l_res, l_rev, l_pc>>
import_vars == <<st_index, st_entries, imp_last, st_latest, st_snapshots,
                st_deleted, st_clock, st_last, st_ops>>
plan_vars == <<p_snap, p_plan>>
payoff_vars == <<s_args, s_items, s_pay, s_months, s_interest, s_lump, s_pc,
                s_result>>
estimate_vars == <<e_args, e_result>>
race_vars == <<c_reqs>>
hook_vars == <<w_receipts, w_markers, w_reqs>>

vars == <<l_snap, l_tx, l_res, l_rev, l_pc, st_index, st_entries, imp_last,
         st_latest, st_snapshots, st_deleted, st_clock, st_last, st_ops,
         p_snap, p_plan, s_args, s_items, s_pay, s_months, s_interest, s_lump,
         s_pc, s_result, e_args, e_result, c_reqs, w_receipts, w_markers,
         w_reqs>>

---------------------------------------------------------------------------
(* Bounds of the model's inputs.                                           *)

\* Account balances are drawn from {0, 3, .., 3 * MaxBalance} mills.
MaxBalance == 1
\* Debt balances are drawn from {0, 3, .., 3 * MaxDebtBalance} mills.
MaxDebtBalance == 2
\* Transaction amounts and principal portions: {0, 3, .., 3 * MaxAmount} mills.
MaxAmount == 2
\* Interest portions: {0, 3, .., 3 * MaxInterest} mills.
MaxInterest == 2

\* A statement file has 1..MaxRows rows.
MaxRows == 2
\* Uploads are taken while the index and the file together hold at most
\* MaxIndexRows rows.
MaxIndexRows == 4

\* A snapshot given to compute_plan has 0..MaxStreams income streams.
MaxStreams == 1

Steps(n) == {3 * k : k \in 0..n}

---------------------------------------------------------------------------
(* Values                                                                  *)

None == <<>>
Some(v) == <<v>>

IsNone(o) == o = <<>>

\* Python's `o or d` for an optional number: None and 0 are both falsy.
OrElse(o, d) == IF o = <<>> THEN d ELSE IF o[1] = 0 THEN d ELSE o[1]

NameA   == <<"a">>
NameASp == <<"a", " ">>
NameSpA == <<" ", "a">>
NameB   == <<"b">>
NameC   == <<"c">>
NameD   == <<"d">>
NameE   == <<"e">>

\* str.strip(): drop the leading and the trailing blanks.
RECURSIVE LStrip(_)
LStrip(s) == IF s = <<>> THEN <<>>
             ELSE IF Head(s) = " " THEN LStrip(Tail(s)) ELSE s

RECURSIVE RStrip(_)
RStrip(s) == IF s = <<>> THEN <<>>
             ELSE IF s[Len(s)] = " " THEN RStrip(SubSeq(s, 1, Len(s) - 1)) ELSE s

Strip(s) == RStrip(LStrip(s))

\* str.lower() on the kinds and account types the model draws.
Lower(k) ==
    CASE k = "EXPENSE" -> "expense"
      [] k = "Savings" -> "savings"
      [] OTHER         -> k

\* round(x, 2) of an exact decimal x given in mills: the nearest multiple of
\* 10 mills, a tie going to the even cent.
Round2(x) ==
    LET q == x \div 10
        r == x % 10
    IN  IF r < 5 THEN 10 * q
        ELSE IF r > 5 THEN 10 * (q + 1)
        ELSE IF q % 2 = 0 THEN 10 * q ELSE 10 * (q + 1)

Max(a, b) == IF a >= b THEN a ELSE b
Min(a, b) == IF a <= b THEN a ELSE b

---------------------------------------------------------------------------
(* app/logic/ledger.py                                                     *)

\* apply_transaction._norm
norm(s) == Strip(s)

\* The index of the first item whose key equals n, 0 for Python's None: the
\* `for x in items: if key(x) == n: return x` of both lookups.
FirstIndex(keys, n) ==
    LET hits == {i \in 1..Len(keys) : keys[i] = n}
    IN  IF hits = {} THEN 0
        ELSE CHOOSE i \in hits : \A j \in hits : i <= j

\* apply_transaction.find_account and find_debt: names compared stripped.
apply_find(items, name) ==
    FirstIndex([i \in 1..Len(items) |-> norm(items[i].name)], norm(name))

\* reverse_transaction.find_account and find_debt: names compared as they are.
reverse_find(items, name) ==
    FirstIndex([i \in 1..Len(items) |-> items[i].name], name)

\* entry = dict(tx): the fields of tx, and the derived fields still unset.
EntryOf(tx) ==
    [kind |-> tx.kind, amount |-> tx.amount,
     from_account |-> tx.from_account, to_account |-> tx.to_account,
     debt_name |-> tx.debt_name,
     principal_portion |-> tx.principal_portion,
     interest_portion |-> tx.interest_portion,
     balance_kind |-> "", balance_name |-> None, balance_after |-> None,
     balance_name_from |-> None, balance_after_from |-> None,
     balance_name_to |-> None, balance_after_to |-> None,
     account_after |-> None]

\* A raise: nothing is returned; `input` is the caller's snapshot as the call
\* left it.
Raised(accounts, debts, tx) ==
    [ok |-> FALSE, input |-> [accounts |-> accounts, debts |-> debts],
     snapshot |-> [accounts |-> accounts, debts |-> debts],
     entry |-> EntryOf(tx), principal |-> 0]

\* A return of (snap, entry).  The lists of snap are new lists of the same
\* account and debt objects, so the caller's snapshot shows the same balances.
Returned(accounts, debts, entry, principal) ==
    [ok |-> TRUE, input |-> [accounts |-> accounts, debts |-> debts],
     snapshot |-> [accounts |-> accounts, debts |-> debts],
     entry |-> entry, principal |-> principal]

apply_expense(accounts, debts, tx) ==
    LET acc == apply_find(accounts, tx.from_account)
    IN  IF acc = 0 THEN Raised(accounts, debts, tx)
        ELSE
        LET bal_before == accounts[acc].balance
            acc1 == [accounts EXCEPT ![acc].balance = bal_before - tx.amount]
        IN  Returned(acc1, debts,
                [EntryOf(tx) EXCEPT
                    !.balance_kind = "account",
                    !.balance_name = acc1[acc].name,
                    !.balance_after = Some(Round2(acc1[acc].balance))], 0)

\* Mutant: the destination is debited instead of credited.
apply_transfer_sign_slip(accounts, debts, tx) ==
    LET src == apply_find(accounts, tx.from_account)
        dst == apply_find(accounts, tx.to_account)
    IN  IF src = 0 \/ dst = 0 THEN Raised(accounts, debts, tx)
        ELSE
        LET acc1 == [accounts EXCEPT ![src].balance = @ - tx.amount]
            acc2 == [acc1 EXCEPT ![dst].balance = @ - tx.amount]
        IN  Returned(acc2, debts,
                [EntryOf(tx) EXCEPT
                    !.balance_kind = "transfer",
                    !.balance_name_from = acc2[src].name,
                    !.balance_after_from = Some(Round2(acc2[src].balance)),
                    !.balance_name_to = acc2[dst].name,
                    !.balance_after_to = Some(Round2(acc2[dst].balance))], 0)

\* Mutant: the source is debited as soon as it is found, before the
\* destination is looked up.
apply_transfer_debit_first(accounts, debts, tx) ==
    LET src == apply_find(accounts, tx.from_account)
        dst == apply_find(accounts, tx.to_account)
    IN  IF src = 0 THEN Raised(accounts, debts, tx)
        ELSE
        LET acc1 == [accounts EXCEPT ![src].balance = @ - tx.amount]
        IN  IF dst = 0 THEN Raised(acc1, debts, tx)
            ELSE
            LET acc2 == [acc1 EXCEPT ![dst].balance = @ + tx.amount]
            IN  Returned(acc2, debts,
                    [EntryOf(tx) EXCEPT
                        !.balance_kind = "transfer",
                        !.balance_name_from = acc2[src].name,
                        !.balance_after_from = Some(Round2(acc2[src].balance)),
                        !.balance_name_to = acc2[dst].name,
                        !.balance_after_to = Some(Round2(acc2[dst].balance))], 0)

apply_transfer(accounts, debts, tx) ==
    LET src == apply_find(accounts, tx.from_account)
        dst == apply_find(accounts, tx.to_account)
    IN  IF src = 0 \/ dst = 0 THEN Raised(accounts, debts, tx)
        ELSE
        LET acc1 == [accounts EXCEPT ![src].balance = @ - tx.amount]
            acc2 == [acc1 EXCEPT ![dst].balance = @ + tx.amount]
        IN  Returned(acc2, debts,
                [EntryOf(tx) EXCEPT
                    !.balance_kind = "transfer",
                    !.balance_name_from = acc2[src].name,
                    !.balance_after_from = Some(Round2(acc2[src].balance)),
                    !.balance_name_to = acc2[dst].name,
                    !.balance_after_to = Some(Round2(acc2[dst].balance))], 0)

\* Mutant: without principal_portion the principal is the amount less the
\* interest portion.
principal_of_net_interest(tx) ==
    LET interest  == OrElse(tx.interest_portion, 0)
        principal == OrElse(tx.principal_portion, tx.amount - interest)
    IN  IF principal + interest > tx.amount THEN tx.amount ELSE principal

\* Mutant: no guard against allocating more than the amount.
principal_of_unguarded(tx) ==
    OrElse(tx.principal_portion, tx.amount)

\* The principal a debt payment deducts (ledger.py lines 165-169).  The
\* guard's 1e-9 is below the model's resolution of one mill.
principal_of(tx) ==
    LET principal == OrElse(tx.principal_portion, tx.amount)
        interest  == OrElse(tx.interest_portion, 0)
    IN  IF principal + interest > tx.amount THEN tx.amount ELSE principal

\* Mutant: the debt balance is not clamped at 0.
apply_debt_payment_unclamped(accounts, debts, tx) ==
    LET acc  == apply_find(accounts, tx.from_account)
        debt == apply_find(debts, tx.debt_name)
    IN  IF acc = 0 \/ debt = 0 THEN Raised(accounts, debts, tx)
        ELSE
        LET acc1 == [accounts EXCEPT ![acc].balance = @ - tx.amount]
            principal == principal_of(tx)
            debts1 == [debts EXCEPT ![debt].balance = @ - principal]
        IN  Returned(acc1, debts1,
                [EntryOf(tx) EXCEPT
                    !.balance_kind = "debt",
                    !.balance_name = debts1[debt].name,
                    !.balance_after = Some(Round2(debts1[debt].balance)),
                    !.account_after = Some(Round2(acc1[acc].balance))],
                principal)

apply_debt_payment(accounts, debts, tx) ==
    LET acc  == apply_find(accounts, tx.from_account)
        debt == apply_find(debts, tx.debt_name)
    IN  IF acc = 0 \/ debt = 0 THEN Raised(accounts, debts, tx)
        ELSE
        LET acc1 == [accounts EXCEPT ![acc].balance = @ - tx.amount]
            principal == principal_of(tx)
            debts1 == [debts EXCEPT
                          ![debt].balance = Max(0, @ - principal)]
        IN  Returned(acc1, debts1,
                [EntryOf(tx) EXCEPT
                    !.balance_kind = "debt",
                    !.balance_name = debts1[debt].name,
                    !.balance_after = Some(Round2(debts1[debt].balance)),
                    !.account_after = Some(Round2(acc1[acc].balance))],
                principal)

\* Mutant: the entry records the balance before the deposit.
apply_income_records_before(accounts, debts, tx) ==
    LET dst == apply_find(accounts, tx.to_account)
    IN  IF dst = 0 THEN Raised(accounts, debts, tx)
        ELSE
        LET before == accounts[dst].balance
            after  == before + tx.amount
            acc1 == [accounts EXCEPT ![dst].balance = after]
        IN  Returned(acc1, debts,
                [EntryOf(tx) EXCEPT
                    !.balance_kind = "account",
                    !.balance_name = acc1[dst].name,
                    !.balance_after = Some(Round2(before)),
                    !.from_account = None,
                    !.debt_name = None], 0)

apply_income(accounts, debts, tx) ==
    LET dst == apply_find(accounts, tx.to_account)
    IN  IF dst = 0 THEN Raised(accounts, debts, tx)
        ELSE
        LET before == accounts[dst].balance
            after  == before + tx.amount
            acc1 == [accounts EXCEPT ![dst].balance = after]
        IN  Returned(acc1, debts,
                [EntryOf(tx) EXCEPT
                    !.balance_kind = "account",
                    !.balance_name = acc1[dst].name,
                    !.balance_after = Some(Round2(after)),
                    !.from_account = None,
                    !.debt_name = None], 0)

\* apply_transaction(snapshot, tx).  The result records whether the call
\* returned (ok) or raised ValueError, the returned snapshot and entry, the
\* caller's snapshot after the call (input), and the principal a debt payment
\* deducted.
apply_transaction(snapshot, tx) ==
    LET kind == Lower(tx.kind)
        accounts == snapshot.accounts
        debts == snapshot.debts
    IN  CASE kind = "expense"      -> apply_expense(accounts, debts, tx)
          [] kind = "transfer"     -> apply_transfer(accounts, debts, tx)
          [] kind = "debt_payment" -> apply_debt_payment(accounts, debts, tx)
          [] kind = "income"       -> apply_income(accounts, debts, tx)
          [] OTHER                 -> Raised(accounts, debts, tx)

\* balance += delta on the item found, nothing when none was found (`if acc:`).
Bump(items, i, delta) ==
    IF i = 0 THEN items ELSE [items EXCEPT ![i].balance = @ + delta]

\* reverse_transaction(snapshot, entry)
reverse_transaction(snapshot, entry) ==
    LET kind == Lower(entry.kind)
        amount == entry.amount
        accounts == snapshot.accounts
        debts == snapshot.debts
    IN  CASE kind = "expense" ->
               [accounts |-> Bump(accounts,
                                  reverse_find(accounts, entry.from_account),
                                  amount),
                debts |-> debts]
          [] kind = "transfer" ->
               LET src == reverse_find(accounts, entry.from_account)
                   dst == reverse_find(accounts, entry.to_account)
               IN  [accounts |-> Bump(Bump(accounts, src, amount), dst, 0 - amount),
                    debts |-> debts]
          [] kind = "debt_payment" ->
               LET acc  == reverse_find(accounts, entry.from_account)
                   debt == reverse_find(debts, entry.debt_name)
                   p0 == OrElse(entry.principal_portion, 0)
                   principal == IF p0 <= 0 \/ p0 > amount THEN amount ELSE p0
               IN  [accounts |-> Bump(accounts, acc, amount),
                    debts |-> Bump(debts, debt, principal)]
          [] kind = "income" ->
               [accounts |-> Bump(accounts,
                                  reverse_find(accounts, entry.to_account),
                                  0 - amount),
                debts |-> debts]
          [] OTHER -> [accounts |-> accounts, debts |-> debts]

---------------------------------------------------------------------------
(* The transaction engine as a state machine: one call of                  *)
(* apply_transaction on a drawn snapshot and transaction, then one call of *)
(* reverse_transaction on what it returned.                                *)

Kinds == {"expense", "EXPENSE", "income", "transfer", "debt_payment"}

\* All lists of items with the given names, balances drawn from bals.
ItemLists(names, bals) ==
    {[i \in 1..Len(names) |-> [name |-> names[i], balance |-> b[i]]] :
        b \in [1..Len(names) -> bals]}

\* Two accounts, and three of which the third differs from the first by a
\* trailing blank only (nothing in the program keeps names unique or stripped).
AccountLists ==
    ItemLists(<<NameA, NameB>>, Steps(MaxBalance))
        \cup ItemLists(<<NameA, NameB, NameASp>>, Steps(MaxBalance))

DebtLists ==
    ItemLists(<<NameD>>, Steps(MaxDebtBalance))
        \cup ItemLists(<<NameD, NameE>>, Steps(MaxDebtBalance))

\* Names a transaction may carry: exact, with a leading blank, of no account,
\* and None.
TxAccountNames == {NameA, NameSpA, NameB, NameC, None}
TxDebtNames == {NameD, NameE, NameC}

Optional(S) == {None} \cup {Some(v) : v \in S}

Tx(kind, amount, from, to, debt, principal, interest) ==
    [kind |-> kind, amount |-> amount, from_account |-> from,
     to_account |-> to, debt_name |-> debt,
     principal_portion |-> principal, interest_portion |-> interest]

ExpenseTxs ==
    {Tx(k, a, f, None, None, None, None) :
        k \in {"expense", "EXPENSE"}, a \in Steps(MaxAmount), f \in TxAccountNames}

IncomeTxs ==
    {Tx("income", a, None, t, None, None, None) :
        a \in Steps(MaxAmount), t \in TxAccountNames}

TransferTxs ==
    {Tx("transfer", a, f, t, None, None, None) :
        a \in Steps(MaxAmount), f \in TxAccountNames, t \in TxAccountNames}

UnsupportedTxs ==
    {Tx("refund", a, NameA, NameB, None, None, None) : a \in Steps(MaxAmount)}

DebtPaymentTxs ==
    {Tx("debt_payment", a, f, None, d, p, i) :
        a \in Steps(MaxAmount), f \in {NameA, NameSpA, NameB, NameC},
        d \in TxDebtNames,
        p \in Optional(Steps(MaxAmount)), i \in Optional(Steps(MaxInterest))}

NoResult == <<>>

\* A store that holds no index, no entry, no archived snapshot.
EmptyStore ==
    /\ st_index = <<>>
    /\ st_entries = <<>>
    /\ imp_last = NoResult
    /\ st_snapshots = <<>>
    /\ st_deleted = <<>>
    /\ st_clock = 0
    /\ st_last = NoResult
    /\ st_ops = 0

\* The store's variables while a component that does not use it runs.
ImportIdle ==
    /\ EmptyStore
    /\ st_latest = NoResult

\* The payoff simulator's variables while another component runs.
PayoffIdle ==
    /\ s_args = NoResult
    /\ s_items = <<>>
    /\ s_pay = 0
    /\ s_months = 0
    /\ s_interest = 0
    /\ s_lump = 0
    /\ s_pc = "idle"
    /\ s_result = NoResult

\* The payoff estimate's variables while another component runs.
EstimateIdle ==
    /\ e_args = NoResult
    /\ e_result = NoResult

\* No create_entry requests run side by side.
RaceIdle == c_reqs = <<>>

\* No webhook was delivered.
HookIdle ==
    /\ w_receipts = <<>>
    /\ w_markers = {}
    /\ w_reqs = <<>>

\* The plan engine's variables while another component runs.
PlanIdle ==
    /\ p_snap = NoResult
    /\ p_plan = NoResult

\* The engine's variables while another component runs.
LedgerIdle ==
    /\ l_snap = NoResult
    /\ l_tx = NoResult
    /\ l_res = NoResult
    /\ l_rev = NoResult
    /\ l_pc = "idle"

InitLedger ==
    /\ \/ /\ l_snap \in [accounts : AccountLists, debts : DebtLists]
          /\ l_tx \in ExpenseTxs \cup IncomeTxs \cup TransferTxs \cup UnsupportedTxs
       \/ /\ l_snap \in [accounts : ItemLists(<<NameA, NameB>>, Steps(MaxBalance)),
                         debts : DebtLists]
          /\ l_tx \in DebtPaymentTxs
    /\ l_res = NoResult
    /\ l_rev = NoResult
    /\ l_pc = "start"
    /\ ImportIdle
    /\ PlanIdle
    /\ PayoffIdle
    /\ EstimateIdle
    /\ RaceIdle
    /\ HookIdle

\* updated, entry = apply_transaction(latest, tx)
Apply ==
    /\ l_pc = "start"
    /\ l_res' = apply_transaction(l_snap, l_tx)
    /\ l_pc' = "applied"
    /\ UNCHANGED <<l_snap, l_tx, l_rev>>
    /\ UNCHANGED <<import_vars, plan_vars, payoff_vars, estimate_vars,
                   race_vars,
                   hook_vars>>

\* latest = reverse_transaction(latest, entry), of an entry that was returned
Reverse ==
    /\ l_pc = "applied"
    /\ l_res.ok
    /\ l_rev' = reverse_transaction(l_res.snapshot, l_res.entry)
    /\ l_pc' = "reversed"
    /\ UNCHANGED <<l_snap, l_tx, l_res>>
    /\ UNCHANGED <<import_vars, plan_vars, payoff_vars, estimate_vars,
                   race_vars,
                   hook_vars>>

NextLedger == Apply \/ Reverse

SpecLedger == InitLedger /\ [][NextLedger]_vars

---------------------------------------------------------------------------
(* Properties of the transaction engine, checked under SpecLedger.         *)

\* apply_transaction returned, for a transaction of the given kind.
Done(kind) == l_pc # "start" /\ l_res.ok /\ Lower(l_tx.kind) = kind

\* Some item of the list answers to the name (names compared stripped).
Exists(items, name) ==
    \E i \in 1..Len(items) : Strip(items[i].name) = Strip(name)

\* The item a name denotes: the first one that answers to it.
Denoted(items, name) ==
    CHOOSE i \in 1..Len(items) :
        /\ Strip(items[i].name) = Strip(name)
        /\ \A j \in 1..(i - 1) : Strip(items[j].name) # Strip(name)

OldAccounts == l_snap.accounts
NewAccounts == l_res.snapshot.accounts
OldDebts == l_snap.debts
NewDebts == l_res.snapshot.debts

\* Every item outside `touched` keeps its balance, and the list its names.
SameExcept(old, new, touched) ==
    /\ Len(new) = Len(old)
    /\ \A i \in 1..Len(old) :
          /\ new[i].name = old[i].name
          /\ i \notin touched => new[i].balance = old[i].balance

\* C1 as stated: a transfer of A from account X to account Y leaves X + Y
\* unchanged, lowers X by A, and changes no other account and no debt.
C1_TransferConservation ==
    Done("transfer") =>
        LET X == Denoted(OldAccounts, l_tx.from_account)
            Y == Denoted(OldAccounts, l_tx.to_account)
        IN  /\ NewAccounts[X].balance + NewAccounts[Y].balance
                  = OldAccounts[X].balance + OldAccounts[Y].balance
            /\ NewAccounts[X].balance = OldAccounts[X].balance - l_tx.amount
            /\ SameExcept(OldAccounts, NewAccounts, {X, Y})
            /\ NewDebts = OldDebts

\* C1 amended: the same when X and Y are different accounts (Y then rises by
\* A); a transfer from an account to itself leaves its balance unchanged.
C1_TransferConservationDistinct ==
    Done("transfer") =>
        LET X == Denoted(OldAccounts, l_tx.from_account)
            Y == Denoted(OldAccounts, l_tx.to_account)
        IN  /\ NewAccounts[X].balance + NewAccounts[Y].balance
                  = OldAccounts[X].balance + OldAccounts[Y].balance
            /\ X # Y => /\ NewAccounts[X].balance
                              = OldAccounts[X].balance - l_tx.amount
                        /\ NewAccounts[Y].balance
                              = OldAccounts[Y].balance + l_tx.amount
            /\ X = Y => NewAccounts[X].balance = OldAccounts[X].balance
            /\ SameExcept(OldAccounts, NewAccounts, {X, Y})
            /\ NewDebts = OldDebts

\* A transfer of a positive amount between two different accounts of three.
C1_Witness ==
    /\ Done("transfer")
    /\ l_tx.amount > 0
    /\ Len(OldAccounts) = 3
    /\ Denoted(OldAccounts, l_tx.from_account)
          # Denoted(OldAccounts, l_tx.to_account)

Portion(o) == IF o = None THEN 0 ELSE o[1]

C3_ReverseInverse ==
    (l_pc = "reversed"
        /\ Lower(l_tx.kind) \in {"expense", "income", "transfer"}) =>
        l_rev.accounts = l_snap.accounts

\* C36: for a debt payment whose deducted principal did not exceed the debt's
\* balance, reversing the returned entry on the returned snapshot gives the
\* from-account and the debt the balances they had before the payment.
C36_DebtPaymentReversalRestores ==
    (/\ l_pc = "reversed"
     /\ Lower(l_tx.kind) = "debt_payment"
     /\ l_res.principal
           <= OldDebts[Denoted(OldDebts, l_tx.debt_name)].balance)
    => LET A == Denoted(OldAccounts, l_tx.from_account)
           D == Denoted(OldDebts, l_tx.debt_name)
       IN  /\ l_rev.accounts[A].balance = OldAccounts[A].balance
           /\ l_rev.debts[D].balance = OldDebts[D].balance

\* The accounts or debt the transaction needs and the snapshot lacks.
LookupFails ==
    LET kind == Lower(l_tx.kind)
        from == Exists(OldAccounts, l_tx.from_account)
        to   == Exists(OldAccounts, l_tx.to_account)
        debt == Exists(OldDebts, l_tx.debt_name)
    IN  CASE kind = "expense"      -> ~from
          [] kind = "income"       -> ~to
          [] kind = "transfer"     -> ~from \/ ~to
          [] kind = "debt_payment" -> ~from \/ ~debt
          [] OTHER                 -> TRUE

\* C5: when the transaction names a missing account or debt, or has an
\* unsupported kind, apply_transaction raises and the snapshot it was given
\* has every balance it had; and it raises in no other case.
C5_AtomicOnLookupFailure ==
    l_pc # "start" =>
        /\ LookupFails <=> ~l_res.ok
        /\ ~l_res.ok => l_res.input = l_snap

\* A transfer of a positive amount whose source exists and whose destination
\* does not, and a debt payment whose account exists and whose debt does not.
C5_Witness ==
    /\ l_pc = "applied"
    /\ ~l_res.ok
    /\ l_tx.amount > 0
    /\ Lower(l_tx.kind) = "transfer"
    /\ Exists(OldAccounts, l_tx.from_account)
    /\ ~Exists(OldAccounts, l_tx.to_account)

\* The derived fields of the entry, given what the balances should read.
\* Conv is the conversion from a balance to the recorded figure.
EntryRecords(Conv(_)) ==
    LET e == l_res.entry
        kind == Lower(l_tx.kind)
    IN  CASE kind = "expense" ->
               LET X == Denoted(OldAccounts, l_tx.from_account)
               IN  /\ e.balance_kind = "account"
                   /\ e.balance_after = Some(Conv(NewAccounts[X].balance))
          [] kind = "income" ->
               LET Y == Denoted(OldAccounts, l_tx.to_account)
               IN  /\ e.balance_kind = "account"
                   /\ e.balance_after = Some(Conv(NewAccounts[Y].balance))
          [] kind = "transfer" ->
               LET X == Denoted(OldAccounts, l_tx.from_account)
                   Y == Denoted(OldAccounts, l_tx.to_account)
               IN  /\ e.balance_after_from = Some(Conv(NewAccounts[X].balance))
                   /\ e.balance_after_to = Some(Conv(NewAccounts[Y].balance))
          [] kind = "debt_payment" ->
               LET X == Denoted(OldAccounts, l_tx.from_account)
                   D == Denoted(OldDebts, l_tx.debt_name)
               IN  /\ e.balance_kind = "debt"
                   /\ e.balance_after = Some(Conv(NewDebts[D].balance))
                   /\ e.account_after = Some(Conv(NewAccounts[X].balance))

Exactly(x) == x

\* C8 as stated: the entry's balance-after fields equal the balances of the
\* returned snapshot.
C8_EntryRecordsBalances ==
    (l_pc # "start" /\ l_res.ok) => EntryRecords(Exactly)

\* C8 amended: the entry's balance-after fields equal the balances of the
\* returned snapshot rounded to 2 decimals.
C8_EntryRecordsRoundedBalances ==
    (l_pc # "start" /\ l_res.ok) => EntryRecords(Round2)

\* An income whose resulting balance is not a whole number of cents.
C8_Witness ==
    /\ Done("income")
    /\ l_tx.amount > 0
    /\ LET Y == Denoted(OldAccounts, l_tx.to_account)
       IN  /\ Round2(NewAccounts[Y].balance) # NewAccounts[Y].balance
           /\ Round2(NewAccounts[Y].balance) # Round2(OldAccounts[Y].balance)

\* C9: a debt payment of A with no principal_portion lowers the account by A
\* and the debt by A, clamped at 0.
C9_DefaultAllocation ==
    (Done("debt_payment") /\ l_tx.principal_portion = None) =>
        LET X == Denoted(OldAccounts, l_tx.from_account)
            D == Denoted(OldDebts, l_tx.debt_name)
        IN  /\ NewAccounts[X].balance = OldAccounts[X].balance - l_tx.amount
            /\ NewDebts[D].balance = Max(0, OldDebts[D].balance - l_tx.amount)

\* A payment with no principal_portion and an interest_portion, on a debt
\* larger than the amount.
C9_Witness ==
    /\ Done("debt_payment")
    /\ l_tx.principal_portion = None
    /\ Portion(l_tx.interest_portion) > 0
    /\ l_tx.amount > Portion(l_tx.interest_portion)
    /\ LET D == Denoted(OldDebts, l_tx.debt_name)
       IN  /\ OldDebts[D].balance >= l_tx.amount
           /\ NewDebts[D].balance = OldDebts[D].balance - l_tx.amount

\* C10: when principal_portion + interest_portion exceeds the amount, the
\* debt is lowered by exactly the amount, clamped at 0.
C10_OverAllocationGuard ==
    (Done("debt_payment")
        /\ Portion(l_tx.principal_portion) + Portion(l_tx.interest_portion)
              > l_tx.amount) =>
        LET D == Denoted(OldDebts, l_tx.debt_name)
        IN  NewDebts[D].balance = Max(0, OldDebts[D].balance - l_tx.amount)

\* The spec's scenario in small: a principal portion below the amount, an
\* interest portion that takes the sum above it, a debt not below the amount.
C10_Witness ==
    /\ Done("debt_payment")
    /\ l_tx.principal_portion # None
    /\ Portion(l_tx.principal_portion) > 0
    /\ Portion(l_tx.principal_portion) < l_tx.amount
    /\ Portion(l_tx.principal_portion) + Portion(l_tx.interest_portion)
          > l_tx.amount
    /\ LET D == Denoted(OldDebts, l_tx.debt_name)
       IN  /\ OldDebts[D].balance >= l_tx.amount
           /\ NewDebts[D].balance = OldDebts[D].balance - l_tx.amount

\* C26: after an apply_transaction that returned, the snapshot that was
\* passed in shows the balances it had before the call.
C26_ApplyLeavesInputAlone ==
    (l_pc = "applied" /\ l_res.ok) => l_res.input = l_snap

---------------------------------------------------------------------------
(* app/blueprints/ledger_upload.py: statement import                       *)
(*                                                                         *)
(* A statement row is [date, amount, description].  A date cell is         *)
(* <<format, day>> with format "mdy" (%m/%d/%y), "ymd" (%Y-%m-%d) or "bad" *)
(* (no format parses it); day numbers the calendar day.  An amount cell is *)
(* <<"num", v>> for text that float() reads as v mills, or <<"text">> for  *)
(* text it does not read.  A timestamp is the day it falls on: the import  *)
(* reads only ts_iso[:10].                                                 *)
(*                                                                         *)
(* An id or a store key is <<tag, n, m, text, sep>>: "csv" ids carry the   *)
(* day, the amount and the description, "ts" ids the second of the clock;  *)
(* sep is the separator of the time of day, ":" as isoformat() writes it   *)
(* or "-" after replace(":", "-").                                         *)

\* An entry as the store holds it: the entry dict with its id, its timestamp
\* and its description.  A key the dict does not have reads as None.
Stored(id, ts, description, e) ==
    [id |-> id, ts |-> ts, description |-> description,
     kind |-> e.kind, amount |-> e.amount,
     from_account |-> e.from_account, to_account |-> e.to_account,
     debt_name |-> e.debt_name,
     principal_portion |-> e.principal_portion,
     interest_portion |-> e.interest_portion,
     balance_kind |-> e.balance_kind, balance_name |-> e.balance_name,
     balance_after |-> e.balance_after,
     balance_name_from |-> e.balance_name_from,
     balance_after_from |-> e.balance_after_from,
     balance_name_to |-> e.balance_name_to,
     balance_after_to |-> e.balance_after_to,
     account_after |-> e.account_after]

\* _parse_date_to_iso raises ValueError on a date no format parses.
DateParses(cell) == cell[1] \in {"mdy", "ymd"}

\* _parse_date_to_iso: midnight UTC of the day, whatever the format read.
parse_date_to_iso(cell) == cell[2]

\* _to_float: the number read, 0.0 when float() raises.
to_float(cell) == IF cell[1] = "num" THEN cell[2] ELSE 0

\* _norm_desc: blanks collapsed, upper case.
norm_desc(d) ==
    CASE d = "coffee"  -> "COFFEE"
      [] d = "Coffee " -> "COFFEE"
      [] d = "rent"    -> "RENT"
      [] OTHER         -> d

\* _existing_key's parameters (ts_iso, amount), and the arguments the two
\* calls of it pass.
ExistingKeyParams == 2
ExistingKeyArgsAtScan == 3
ExistingKeyArgsAtRow == 2

\* A call with a number of positional arguments other than the parameters
\* raises TypeError.
CallRaises(args, params) == args # params

\* _existing_key(ts_iso, amount)
existing_key(ts_iso, amount) == <<ts_iso, Round2(amount)>>

\* _entry_id(ts_iso, amount, desc_norm): the date, the amount in cents and a
\* hash of (date, amount, description), taken to be free of collisions.
entry_id(ts_iso, amount, desc_norm) == <<"csv", ts_iso, amount, desc_norm, "">>

\* The duplicate set built from the stored index (lines 98-107): a row whose
\* key computation raises is skipped by `except Exception: continue`.
existing_from_index(index) ==
    {existing_key(index[i].ts, Round2(index[i].amount)) :
        i \in {j \in 1..Len(index) :
                  ~CallRaises(ExistingKeyArgsAtScan, ExistingKeyParams)}}

\* Python's dict write: the key gets the value, replacing what it had.
Put(f, k, v) == [x \in (DOMAIN f) \cup {k} |-> IF x = k THEN v ELSE f[x]]

\* A variant whose duplicate check is on the entry id, which carries the
\* description, rather than on the date and amount.
import_row_dedupe_by_id(st, raw) ==
    IF ~DateParses(raw.date) THEN [st EXCEPT !.bad_rows = @ + 1]
    ELSE
    LET ts_iso == parse_date_to_iso(raw.date)
        amt == Round2(to_float(raw.amount))
        desc == raw.description
        eid == entry_id(ts_iso, amt, norm_desc(desc))
    IN  IF eid \in DOMAIN st.entries THEN [st EXCEPT !.skipped_dup = @ + 1]
        ELSE
        LET kind == IF amt > 0 THEN "income" ELSE "expense"
            entry == Stored(eid, ts_iso, desc,
                            EntryOf(Tx(kind, amt, None, None, None, None,
                                       None)))
        IN  [st EXCEPT !.entries = Put(@, eid, entry),
                       !.index = Append(@, entry),
                       !.existing = @ \cup {existing_key(ts_iso, amt)},
                       !.inserted = @ + 1]

\* The body of `for raw in reader` (lines 113-161) on one row; st holds the
\* loop's variables.
import_row(st, raw) ==
    IF ~DateParses(raw.date) THEN [st EXCEPT !.bad_rows = @ + 1]
    ELSE
    LET ts_iso == parse_date_to_iso(raw.date)
        amt == Round2(to_float(raw.amount))
        desc == raw.description
        desc_norm == norm_desc(desc)
        key == existing_key(ts_iso, amt)
    IN  IF CallRaises(ExistingKeyArgsAtRow, ExistingKeyParams)
        THEN st   \* not reached: the call passes two arguments
        ELSE IF key \in st.existing THEN [st EXCEPT !.skipped_dup = @ + 1]
        ELSE
        LET kind == IF amt > 0 THEN "income" ELSE "expense"
            eid == entry_id(ts_iso, amt, desc_norm)
            entry == Stored(eid, ts_iso, desc,
                            EntryOf(Tx(kind, amt, None, None, None, None,
                                       None)))
        IN  [st EXCEPT !.entries = Put(@, eid, entry),
                       !.index = Append(@, entry),
                       !.existing = @ \cup {key},
                       !.inserted = @ + 1]

RECURSIVE import_rows(_, _)
import_rows(st, rows) ==
    IF rows = <<>> THEN st
    ELSE import_rows(import_row(st, Head(rows)), Tail(rows))

\* upload_ledger_csv on the rows of a file with a header, against the stored
\* index and entries: the loop's variables when it ends.
upload_ledger_csv(index, entries, rows) ==
    import_rows([index |-> index, entries |-> entries,
                 existing |-> existing_from_index(index),
                 inserted |-> 0, skipped_dup |-> 0, bad_rows |-> 0], rows)

---------------------------------------------------------------------------
(* save_review: the bulk edit of the review page.  The form gives, for     *)
(* some ids of the index, an edit [type, from, to]: type is the text of    *)
(* the Type field ("" when empty), from a name, and to is None or          *)
(* [debt, name], debt telling whether the field read "debt::<name>".  The  *)
(* category and note fields are left empty and the entries have none.      *)

\* A form field left empty.
EmptyId == <<"", 0, 0, "", "">>

\* One user's documents, as a store.
TheStore ==
    [latest |-> st_latest, index |-> st_index, entries |-> st_entries,
     deleted |-> st_deleted, snapshots |-> st_snapshots]

allowed_types == {"expense", "income", "transfer", "debt_payment"}

\* The entry read for an id that has no document: `store.read_json(epath)
\* or {}`, every key reading as None.
MissingEntry ==
    Stored(EmptyId, 0, "", EntryOf(Tx("", 0, None, None, None, None, None)))

\* A variant that forces the kind to debt_payment for a debt target whatever
\* type the form submitted.
review_row_coerce_any_type(entry, row, edit) ==
    LET new_type == IF Lower(edit.type) \in allowed_types
                    THEN Lower(edit.type) ELSE ""
        new_from == Strip(edit.from)
        new_to_account == IF edit.to = None \/ edit.to[1].debt THEN None
                          ELSE Strip(edit.to[1].name)
        new_debt_name  == IF edit.to = None \/ ~edit.to[1].debt THEN None
                          ELSE Strip(edit.to[1].name)
        cur_type == Lower(entry.kind)
        kind_changes == new_type # "" /\ new_type # cur_type
        from_changes == new_from # entry.from_account
        to_changes   == new_to_account # entry.to_account
                           \/ new_debt_name # entry.debt_name
        coerced      == to_changes /\ new_debt_name # None
                           /\ cur_type # "debt_payment"
        kind1 == IF coerced THEN "debt_payment"
                 ELSE IF kind_changes THEN new_type ELSE entry.kind
        rkind == IF coerced THEN "debt_payment"
                 ELSE IF kind_changes THEN new_type ELSE row.kind
    IN  [entry |-> [entry EXCEPT
                      !.kind = kind1,
                      !.from_account = IF from_changes THEN new_from ELSE @,
                      !.to_account = IF to_changes THEN new_to_account ELSE @,
                      !.debt_name = IF to_changes THEN new_debt_name ELSE @],
         row   |-> [row EXCEPT
                      !.kind = rkind,
                      !.from_account = IF from_changes THEN new_from ELSE @,
                      !.to_account = IF to_changes THEN new_to_account ELSE @,
                      !.debt_name = IF to_changes THEN new_debt_name ELSE @],
         changed |-> kind_changes \/ from_changes \/ to_changes]

\* One iteration of `for eid, row in list(index_by_id.items())` for an id
\* the form names: the entry and the row after the edit, and entry_changed.
review_row(entry, row, edit) ==
    LET new_type == IF Lower(edit.type) \in allowed_types
                    THEN Lower(edit.type) ELSE ""
        new_from == Strip(edit.from)
        new_to_account == IF edit.to = None \/ edit.to[1].debt THEN None
                          ELSE Strip(edit.to[1].name)
        new_debt_name  == IF edit.to = None \/ ~edit.to[1].debt THEN None
                          ELSE Strip(edit.to[1].name)
        cur_type == Lower(entry.kind)
        kind_changes == new_type # "" /\ new_type # cur_type
        from_changes == new_from # entry.from_account
        to_changes   == new_to_account # entry.to_account
                           \/ new_debt_name # entry.debt_name
        coerced      == to_changes /\ new_debt_name # None /\ new_type = ""
                           /\ cur_type # "debt_payment"
        kind1 == IF coerced THEN "debt_payment"
                 ELSE IF kind_changes THEN new_type ELSE entry.kind
        rkind == IF coerced THEN "debt_payment"
                 ELSE IF kind_changes THEN new_type ELSE row.kind
    IN  [entry |-> [entry EXCEPT
                      !.kind = kind1,
                      !.from_account = IF from_changes THEN new_from ELSE @,
                      !.to_account = IF to_changes THEN new_to_account ELSE @,
                      !.debt_name = IF to_changes THEN new_debt_name ELSE @],
         row   |-> [row EXCEPT
                      !.kind = rkind,
                      !.from_account = IF from_changes THEN new_from ELSE @,
                      !.to_account = IF to_changes THEN new_to_account ELSE @,
                      !.debt_name = IF to_changes THEN new_debt_name ELSE @],
         changed |-> kind_changes \/ from_changes \/ to_changes]

\* index_by_id = {r.get("id"): r for r in index}: a dict keeps the place of
\* the first row of an id and the value of the last.
index_by_id(index) ==
    LET firsts == {i \in 1..Len(index) :
                      \A j \in 1..(i - 1) : index[j].id # index[i].id}
        last(i) == CHOOSE k \in 1..Len(index) :
                      /\ index[k].id = index[i].id
                      /\ \A j \in (k + 1)..Len(index) : index[j].id # index[i].id
    IN  [i \in 1..Len(index) |-> IF i \in firsts THEN <<index[last(i)]>>
                                 ELSE <<>>]

RECURSIVE Flatten(_)
\* The concatenation of a sequence of sequences.
Flatten(q) == IF q = <<>> THEN <<>> ELSE Head(q) \o Flatten(Tail(q))

\* save_review(form) on a store: the entries the edits changed are written
\* under ledger/entries/<id>.json, and the index is written, one row an id,
\* when an entry changed.  Nothing else of the store is read or written.
save_review(store, form) ==
    LET rows   == Flatten(index_by_id(store.index))
        read(row) == IF row.id \in DOMAIN store.entries
                     THEN store.entries[row.id] ELSE MissingEntry
        out(row)  == IF row.id \in DOMAIN form
                     THEN review_row(read(row), row, form[row.id])
                     ELSE [entry |-> read(row), row |-> row, changed |-> FALSE]
        hit    == {i \in 1..Len(rows) : out(rows[i]).changed}
        hitids == {rows[i].id : i \in hit}
        entry_of(id) == out(rows[CHOOSE i \in hit : rows[i].id = id]).entry
    IN  [changed |-> Cardinality(hit),
         store |-> [store EXCEPT
              !.entries = [k \in (DOMAIN @) \cup hitids |->
                              IF k \in hitids THEN entry_of(k) ELSE @[k]],
              !.index = IF hit = {} THEN @
                        ELSE [i \in 1..Len(rows) |-> out(rows[i]).row]]]

---------------------------------------------------------------------------
(* Statement import as a state machine: uploads of drawn files, one after  *)
(* the other, against one user's store.                                    *)

StatementRows ==
    {[date |-> <<"mdy", 1>>, amount |-> <<"num", 1250>>,
      description |-> "coffee"],
     [date |-> <<"ymd", 1>>, amount |-> <<"num", 1254>>,
      description |-> "rent"],
     [date |-> <<"ymd", 2>>, amount |-> <<"num", 0 - 1250>>,
      description |-> "Coffee "],
     [date |-> <<"bad", 0>>, amount |-> <<"num", 1250>>,
      description |-> "coffee"],
     [date |-> <<"ymd", 2>>, amount |-> <<"text">>,
      description |-> "rent"]}

RECURSIVE SeqsOf(_, _)
\* The sequences of length n over S.
SeqsOf(S, n) ==
    IF n = 0 THEN {<<>>}
    ELSE {Append(q, x) : q \in SeqsOf(S, n - 1), x \in S}

StatementFiles == UNION {SeqsOf(StatementRows, n) : n \in 1..MaxRows}

\* latest.json as onboarding left it: two accounts and one debt.
StartLatest ==
    [accounts |-> <<[name |-> NameA, balance |-> 6],
                    [name |-> NameB, balance |-> 3]>>,
     debts    |-> <<[name |-> NameD, balance |-> 6]>>]

InitImport ==
    /\ EmptyStore
    /\ st_latest = StartLatest
    /\ LedgerIdle
    /\ PlanIdle
    /\ PayoffIdle
    /\ EstimateIdle
    /\ RaceIdle
    /\ HookIdle

\* POST /ledger/upload with a file: the loop, then `store.write_json(idx_path,
\* index)`; the entries were written in the loop.
Upload ==
    \E file \in StatementFiles :
        /\ Len(st_index) + Len(file) <= MaxIndexRows
        /\ LET r == upload_ledger_csv(st_index, st_entries, file)
           IN  /\ st_index' = r.index
               /\ st_entries' = r.entries
               /\ imp_last' = [op |-> "upload",
                               file |-> file,
                               inserted |-> r.inserted,
                               skipped_dup |-> r.skipped_dup,
                               bad_rows |-> r.bad_rows,
                               index_before |-> st_index,
                               prev_file |-> IF imp_last = NoResult THEN <<>>
                                             ELSE IF imp_last.op = "upload"
                                             THEN imp_last.file ELSE <<>>]
        /\ UNCHANGED <<st_latest, st_snapshots, st_deleted, st_clock, st_last,
                       st_ops>>
        /\ UNCHANGED <<ledger_vars, plan_vars, payoff_vars, estimate_vars,
                   race_vars,
                   hook_vars>>

\* At most this many review posts in a run, each editing at most MaxEdits
\* rows.
MaxReviews == 1
MaxEdits == 2

\* The edits a review form holds for a row: route it to account a, target
\* the debt d, retype it as a transfer from " a" with the debt d as target,
\* and a type the page does not offer with both routes empty.
ReviewEdits ==
    {[type |-> "", from |-> None, to |-> Some([debt |-> FALSE, name |-> NameA])],
     [type |-> "", from |-> None, to |-> Some([debt |-> TRUE, name |-> NameD])],
     [type |-> "transfer", from |-> NameSpA,
      to |-> Some([debt |-> TRUE, name |-> NameD])],
     [type |-> "refund", from |-> None, to |-> None]}

ReviewForms(index) ==
    LET ids == {index[i].id : i \in 1..Len(index)}
    IN  UNION {[S -> ReviewEdits] :
                  S \in {T \in SUBSET ids : Cardinality(T) \in 1..MaxEdits}}

\* POST /ledger/review with a form, as one of at most `limit` operations.
Reviews(limit) ==
    \E form \in ReviewForms(st_index) :
        /\ st_ops < limit
        /\ LET r == save_review(TheStore, form)
           IN  /\ st_index' = r.store.index
               /\ st_entries' = r.store.entries
               /\ st_latest' = r.store.latest
               /\ st_snapshots' = r.store.snapshots
               /\ st_deleted' = r.store.deleted
               /\ imp_last' = [op |-> "review", form |-> form,
                               changed |-> r.changed, before |-> TheStore]
        /\ st_ops' = st_ops + 1
        /\ UNCHANGED <<st_clock, st_last>>
        /\ UNCHANGED <<ledger_vars, plan_vars, payoff_vars, estimate_vars,
                   race_vars,
                   hook_vars>>

SaveReview == Reviews(MaxReviews)

NextImport == Upload \/ SaveReview

SpecImport == InitImport /\ [][NextImport]_vars

\* Uploads alone, one after the other.
SpecUpload == InitImport /\ [][Upload]_vars

---------------------------------------------------------------------------
(* Properties of the statement import, checked under SpecImport.           *)

\* Every row of the file has a date and an amount that parse.
WellFormed(file) ==
    \A i \in 1..Len(file) :
        file[i].date[1] \in {"mdy", "ymd"} /\ file[i].amount[1] = "num"

\* C4: the upload of a well-formed file right after an upload of the same
\* file inserts nothing, leaves the index as it found it and counts every
\* row as a skipped duplicate.
C4_IdempotentImport ==
    (imp_last # NoResult
        /\ imp_last.op = "upload"
        /\ imp_last.prev_file = imp_last.file
        /\ WellFormed(imp_last.file)) =>
        /\ imp_last.inserted = 0
        /\ st_index = imp_last.index_before
        /\ imp_last.skipped_dup = Len(imp_last.file)

\* The last operation was an upload.
Uploaded == imp_last # NoResult /\ imp_last.op = "upload"

\* C15: after an upload the live Ledger Index, ledger/index.json, holds no
\* row that the upload created.
C15_ImportStaysOutOfLiveIndex ==
    Uploaded => st_index = imp_last.index_before

\* C17: every row of the Ledger Index has a non-negative amount.
C17_AmountsAreMagnitudes ==
    \A i \in 1..Len(st_index) : st_index[i].amount >= 0

\* A row whose date or amount does not parse.
Unparsable(row) == row.date[1] = "bad" \/ row.amount[1] = "text"

\* The rows i of a file for which P(file[i]) holds.
RowsWhere(file, P(_)) == {i \in 1..Len(file) : P(file[i])}

\* C18: an upload counts every row whose date or amount does not parse as a
\* bad row, and its three counts add up to the rows read.
C18_BadRowsCountedAndSkipped ==
    Uploaded =>
        /\ imp_last.bad_rows = Cardinality(RowsWhere(imp_last.file, Unparsable))
        /\ imp_last.inserted + imp_last.skipped_dup + imp_last.bad_rows
              = Len(imp_last.file)

\* The calendar day and the amount in whole cents of a statement row, and of
\* an index row.
RowDayAmount(row) == <<row.date[2], Round2(to_float(row.amount))>>
IndexDayAmount(r) == <<r.ts, Round2(r.amount)>>

\* A row whose date and amount both parse.
Parses(row) == ~Unparsable(row)

\* The rows of the last uploaded file that parse and come after a row that
\* parses and has the same day and amount.
LaterTwins ==
    {j \in 1..Len(imp_last.file) :
        /\ Parses(imp_last.file[j])
        /\ \E i \in 1..(j - 1) :
              /\ Parses(imp_last.file[i])
              /\ RowDayAmount(imp_last.file[i]) = RowDayAmount(imp_last.file[j])}

\* The index rows the last upload appended.
Appended == SubSeq(st_index, Len(imp_last.index_before) + 1, Len(st_index))

Reviewed == imp_last # NoResult /\ imp_last.op = "review"

\* The transaction a stored entry describes.
ReviewTx(e) ==
    Tx(e.kind, e.amount, e.from_account, e.to_account, e.debt_name, None, None)

\* The rows of the index whose entries the last review edited, in order.
EditedRows ==
    SelectSeq(st_index,
              LAMBDA r : /\ r.id \in DOMAIN imp_last.form
                         /\ st_entries[r.id] # imp_last.before.entries[r.id])

RECURSIVE ApplyChain(_, _)
\* The snapshot left by applying the rows' transactions one after the
\* other, each to the snapshot the one before left; a transaction the
\* engine refuses leaves the snapshot as it was.
ApplyChain(latest, rows) ==
    IF rows = <<>> THEN latest
    ELSE LET r == apply_transaction(latest, ReviewTx(st_entries[Head(rows).id]))
         IN  ApplyChain(IF r.ok THEN r.snapshot ELSE latest, Tail(rows))

\* C16: after a review post, latest is the result of applying the edited
\* rows' transactions in order to the latest before the post, and the
\* archive holds a snapshot for every edited row.
C16_ReviewAppliesChained ==
    Reviewed =>
        /\ st_latest = ApplyChain(imp_last.before.latest, EditedRows)
        /\ \A i \in 1..Len(EditedRows) :
              EditedRows[i].id \in DOMAIN st_snapshots

\* The ids for which the last review form gave a 'to' of the form
\* debt::<name> with a name.
DebtTargeted ==
    {id \in DOMAIN imp_last.form :
        /\ imp_last.form[id].to # None
        /\ imp_last.form[id].to[1].debt
        /\ Strip(imp_last.form[id].to[1].name) # None}

\* A stored entry or an index row targets the debt `name` as a debt payment.
IsDebtPaymentTo(e, name) ==
    e.debt_name = name /\ e.to_account = None /\ e.kind = "debt_payment"

\* C28: after a review post, the entry and the index rows of every id whose
\* edit gave debt::<name> as 'to' have debt_name <name>, no to_account and
\* the kind debt_payment, whatever type the edit submitted.
C28_DebtSentinelForcesKind ==
    Reviewed =>
        \A id \in DebtTargeted :
            LET name == Strip(imp_last.form[id].to[1].name)
            IN  /\ IsDebtPaymentTo(st_entries[id], name)
                /\ \A i \in 1..Len(st_index) :
                      st_index[i].id = id => IsDebtPaymentTo(st_index[i], name)

\* The type an edit submits: the Type field in lower case when the page
\* offers it, "" otherwise.
SubmittedType(edit) ==
    IF Lower(edit.type) \in allowed_types THEN Lower(edit.type) ELSE ""

\* C28, amended: after a review post, the entry of every id whose edit gave
\* debt::<name> as 'to' has debt_name <name> and no to_account.  Its kind
\* is the type the edit submitted when it submitted one; without a
\* submitted type it is debt_payment when the edit changed the target, and
\* the kind it had otherwise.  The index rows of the id carry the same
\* kind and target.
C28_DebtSentinelCoercesUntyped ==
    Reviewed =>
        \A id \in DebtTargeted :
            LET edit   == imp_last.form[id]
                name   == Strip(edit.to[1].name)
                before == imp_last.before.entries[id]
                moved  == before.to_account # None \/ before.debt_name # name
                kind   == IF SubmittedType(edit) # "" THEN SubmittedType(edit)
                          ELSE IF moved THEN "debt_payment"
                          ELSE before.kind
            IN  /\ st_entries[id].debt_name = name
                /\ st_entries[id].to_account = None
                /\ st_entries[id].kind = kind
                /\ \A i \in 1..Len(st_index) :
                      st_index[i].id = id =>
                          /\ st_index[i].debt_name = name
                          /\ st_index[i].to_account = None
                          /\ st_index[i].kind = kind

\* A review that gave debt::d, and no type, for an entry that was an income
\* or an expense without a target: it is a debt payment to d now.
C28_Witness ==
    /\ Reviewed
    /\ \E id \in DebtTargeted :
          /\ SubmittedType(imp_last.form[id]) = ""
          /\ imp_last.before.entries[id].kind \in {"income", "expense"}
          /\ imp_last.before.entries[id].debt_name = None
          /\ IsDebtPaymentTo(st_entries[id], NameD)

---------------------------------------------------------------------------
(* app/blueprints/ledger.py: create_entry, delete_entry and                *)
(* revert_to_snapshot on one user's store.  A store is the record of its   *)
(* documents: latest, index, entries, deleted, snapshots.                  *)

\* The clock runs over the seconds 0..MaxClock.
MaxClock == 1

\* At most this many create, delete and revert operations in a run.
MaxStoreOps == 3

\* _now_iso() at second t.
NowIso(t) == <<"ts", t, 0, "", ":">>

\* id.replace(":", "-")
Dashed(id) == [id EXCEPT ![5] = IF @ = ":" THEN "-" ELSE @]

\* f"manual-backup-{now_iso.replace(':','-')}"
ManualBackup(t) == <<"manual-backup", t, 0, "", "-">>

\* The row _append_index builds: the entry's fields it names; the others
\* read as None.
IndexRow(entry) ==
    [entry EXCEPT !.principal_portion = None, !.interest_portion = None,
                  !.description = ""]

\* create_entry: the transaction is applied to latest; the entry, the index
\* row, the archived snapshot and latest are written.  A ValueError of
\* apply_transaction leaves the handler before any write.
create_entry(store, tx, now) ==
    LET r     == apply_transaction(store.latest, tx)
        id    == NowIso(now)
        entry == Stored(id, now, "", r.entry)
    IN  IF ~r.ok THEN [ok |-> FALSE, store |-> store]
        ELSE [ok |-> TRUE,
              store |-> [store EXCEPT
                           !.entries   = Put(@, Dashed(id), entry),
                           !.index     = Append(@, IndexRow(entry)),
                           !.snapshots = Put(@, Dashed(id), r.snapshot),
                           !.latest    = r.snapshot]]

\* delete_entry(eid): 404 when neither the entry document nor an index
\* row is found; else latest is reversed, the index loses the rows with the
\* id, and the entry is written under ledger/deleted/.
delete_entry(store, eid) ==
    LET hits  == {i \in 1..Len(store.index) : store.index[i].id = eid}
        key   == Dashed(eid)
        entry == IF key \in DOMAIN store.entries THEN store.entries[key]
                 ELSE store.index[CHOOSE i \in hits : \A j \in hits : i <= j]
    IN  IF key \notin DOMAIN store.entries /\ hits = {}
        THEN [ok |-> FALSE, store |-> store]
        ELSE [ok |-> TRUE,
              store |-> [store EXCEPT
                           !.latest  = reverse_transaction(@, entry),
                           !.index   = SelectSeq(@, LAMBDA r : r.id # eid),
                           !.deleted = Put(@, eid, entry)]]

\* A variant that archives latest before it looks the snapshot up.
revert_backup_before_lookup(store, snap_id, now) ==
    IF snap_id = EmptyId \/ snap_id \notin DOMAIN store.snapshots
    THEN [ok |-> FALSE,
          store |-> [store EXCEPT
                       !.snapshots = Put(@, ManualBackup(now), store.latest)]]
    ELSE [ok |-> TRUE,
          store |-> [store EXCEPT
                       !.snapshots = Put(@, ManualBackup(now), store.latest),
                       !.latest    = store.snapshots[snap_id]]]

\* revert_to_snapshot: "Missing snapshot id." for an empty id, "Snapshot not
\* found." for an id without a document; else latest is archived under the
\* manual-backup key of the current second and replaced by the snapshot.
revert_to_snapshot(store, snap_id, now) ==
    IF snap_id = EmptyId \/ snap_id \notin DOMAIN store.snapshots
    THEN [ok |-> FALSE, store |-> store]
    ELSE [ok |-> TRUE,
          store |-> [store EXCEPT
                       !.snapshots = Put(@, ManualBackup(now), store.latest),
                       !.latest    = store.snapshots[snap_id]]]

---------------------------------------------------------------------------
(* The store as a state machine: the clock ticks, and entries are created, *)
(* deleted and snapshots restored, one request after the other.            *)

\* The transactions of the created entries: an expense, an income, a debt
\* payment, and an expense from an account the snapshot does not have.
StoreTxs ==
    {Tx("expense", 3, NameA, None, None, None, None),
     Tx("income", 3, None, NameB, None, None, None),
     Tx("debt_payment", 3, NameA, None, NameD, None, None),
     Tx("expense", 3, NameC, None, None, None, None)}

\* The ids a delete request may name: an entry id as the index has it, and
\* as the entry's key has it.
DeleteIds == {NowIso(t) : t \in 0..MaxClock}
                \cup {Dashed(NowIso(t)) : t \in 0..MaxClock}

\* The ids a revert request may name.
RevertIds == {EmptyId} \cup {Dashed(NowIso(t)) : t \in 0..MaxClock}
                \cup {ManualBackup(t) : t \in 0..MaxClock}

InitStore ==
    /\ EmptyStore
    /\ st_latest = StartLatest
    /\ LedgerIdle
    /\ PlanIdle
    /\ PayoffIdle
    /\ EstimateIdle
    /\ RaceIdle
    /\ HookIdle

\* What an operation leaves in the store's variables.
Stores(op, arg, r) ==
    /\ st_latest' = r.store.latest
    /\ st_index' = r.store.index
    /\ st_entries' = r.store.entries
    /\ st_deleted' = r.store.deleted
    /\ st_snapshots' = r.store.snapshots
    /\ st_last' = [op |-> op, arg |-> arg, ok |-> r.ok, now |-> st_clock,
                   before |-> TheStore]
    /\ st_ops' = st_ops + 1
    /\ UNCHANGED <<st_clock, imp_last>>
    /\ UNCHANGED <<ledger_vars, plan_vars, payoff_vars, estimate_vars,
                   race_vars,
                   hook_vars>>

\* A second passes.
Tick ==
    /\ st_clock < MaxClock
    /\ st_clock' = st_clock + 1
    /\ UNCHANGED <<st_index, st_entries, imp_last, st_latest, st_snapshots,
                   st_deleted, st_last, st_ops>>
    /\ UNCHANGED <<ledger_vars, plan_vars, payoff_vars, estimate_vars,
                   race_vars,
                   hook_vars>>

\* POST /ledger/new
CreateEntry ==
    /\ st_ops < MaxStoreOps
    /\ \E tx \in StoreTxs :
          Stores("create", NowIso(st_clock), create_entry(TheStore, tx, st_clock))

\* POST /ledger/delete/<entry_id>
DeleteEntry ==
    /\ st_ops < MaxStoreOps
    /\ \E id \in DeleteIds : Stores("delete", id, delete_entry(TheStore, id))

\* POST /ledger/revert
Revert ==
    /\ st_ops < MaxStoreOps
    /\ \E id \in RevertIds :
          Stores("revert", id, revert_to_snapshot(TheStore, id, st_clock))

NextStore == Tick \/ CreateEntry \/ DeleteEntry \/ Revert

SpecStore == InitStore /\ [][NextStore]_vars

---------------------------------------------------------------------------
(* create_entry and delete_entry write by write: a request reads the       *)
(* store, computes, and then issues its store.write_json calls one after   *)
(* the other; the process may stop between two of them.                    *)

\* At most this many requests in a run of the write-by-write machine.
MaxRequests == 2

\* One store.write_json call: the document, its key, the value written.
WriteOf(doc, key, value) == [doc |-> doc, key |-> key, value |-> value]

\* A variant of create_entry's writes that stores latest first.
create_writes_latest_first(store, tx, now) ==
    LET r     == apply_transaction(store.latest, tx)
        id    == NowIso(now)
        entry == Stored(id, now, "", r.entry)
    IN  IF ~r.ok THEN <<>>
        ELSE <<WriteOf("latest", EmptyId, r.snapshot),
               WriteOf("entries", Dashed(id), entry),
               WriteOf("index", EmptyId, Append(store.index, IndexRow(entry))),
               WriteOf("snapshots", Dashed(id), r.snapshot)>>

\* The writes of create_entry in the order of its code: the entry document,
\* the index with the row appended, the archived snapshot, latest.  None
\* after a ValueError of apply_transaction.
create_writes(store, tx, now) ==
    LET r     == apply_transaction(store.latest, tx)
        id    == NowIso(now)
        entry == Stored(id, now, "", r.entry)
    IN  IF ~r.ok THEN <<>>
        ELSE <<WriteOf("entries", Dashed(id), entry),
               WriteOf("index", EmptyId, Append(store.index, IndexRow(entry))),
               WriteOf("snapshots", Dashed(id), r.snapshot),
               WriteOf("latest", EmptyId, r.snapshot)>>

\* The writes of delete_entry in the order of its code: latest reversed, the
\* index without the id's rows, the entry under ledger/deleted/.  None after
\* the 404.
delete_writes(store, eid) ==
    LET hits  == {i \in 1..Len(store.index) : store.index[i].id = eid}
        key   == Dashed(eid)
        entry == IF key \in DOMAIN store.entries THEN store.entries[key]
                 ELSE store.index[CHOOSE i \in hits : \A j \in hits : i <= j]
    IN  IF key \notin DOMAIN store.entries /\ hits = {} THEN <<>>
        ELSE <<WriteOf("latest", EmptyId, reverse_transaction(store.latest, entry)),
               WriteOf("index", EmptyId,
                       SelectSeq(store.index, LAMBDA r : r.id # eid)),
               WriteOf("deleted", eid, entry)>>

\* store.write_json(path, value) on the store's variables.
write_json(w) ==
    /\ st_entries' = IF w.doc = "entries" THEN Put(st_entries, w.key, w.value)
                     ELSE st_entries
    /\ st_index' = IF w.doc = "index" THEN w.value ELSE st_index
    /\ st_snapshots' = IF w.doc = "snapshots"
                       THEN Put(st_snapshots, w.key, w.value)
                       ELSE st_snapshots
    /\ st_latest' = IF w.doc = "latest" THEN w.value ELSE st_latest
    /\ st_deleted' = IF w.doc = "deleted" THEN Put(st_deleted, w.key, w.value)
                     ELSE st_deleted

\* A request is between its first read and its last write.
InFlight ==
    /\ st_last # NoResult
    /\ ~st_last.stopped
    /\ st_last.done < Len(st_last.writes)

\* A request enters its handler: it reads the store and computes what it
\* will write; `after` is the store the whole handler leaves.
Begins(op, arg, r, writes) ==
    /\ st_last' = [op |-> op, arg |-> arg, ok |-> r.ok, now |-> st_clock,
                   before |-> TheStore, after |-> r.store,
                   writes |-> writes, done |-> 0, stopped |-> FALSE]
    /\ st_ops' = st_ops + 1
    /\ UNCHANGED <<st_index, st_entries, st_latest, st_snapshots, st_deleted,
                   st_clock, imp_last>>
    /\ UNCHANGED <<ledger_vars, plan_vars, payoff_vars, estimate_vars,
                   race_vars,
                   hook_vars>>

\* POST /ledger/new, up to its first write.
BeginCreate ==
    /\ ~InFlight
    /\ st_ops < MaxRequests
    /\ \E tx \in StoreTxs :
          Begins("create", NowIso(st_clock),
                 create_entry(TheStore, tx, st_clock),
                 create_writes(TheStore, tx, st_clock))

\* POST /ledger/delete/<entry_id>, up to its first write.
BeginDelete ==
    /\ ~InFlight
    /\ st_ops < MaxRequests
    /\ \E id \in DeleteIds :
          Begins("delete", id, delete_entry(TheStore, id),
                 delete_writes(TheStore, id))

\* The request's next store.write_json call.
WriteNext ==
    /\ InFlight
    /\ write_json(st_last.writes[st_last.done + 1])
    /\ st_last' = [st_last EXCEPT !.done = @ + 1]
    /\ UNCHANGED <<st_clock, st_ops, imp_last>>
    /\ UNCHANGED <<ledger_vars, plan_vars, payoff_vars, estimate_vars,
                   race_vars,
                   hook_vars>>

\* The process stops between two writes of the request.
Stop ==
    /\ InFlight
    /\ st_last.done > 0
    /\ st_last' = [st_last EXCEPT !.stopped = TRUE]
    /\ UNCHANGED <<st_index, st_entries, st_latest, st_snapshots, st_deleted,
                   st_clock, st_ops, imp_last>>
    /\ UNCHANGED <<ledger_vars, plan_vars, payoff_vars, estimate_vars,
                   race_vars,
                   hook_vars>>

NextWrites == Tick \/ BeginCreate \/ BeginDelete \/ WriteNext \/ Stop

SpecWrites == InitStore /\ [][NextWrites]_vars

\* The documents the request has written so far.
Written == {st_last.writes[i].doc : i \in 1..st_last.done}

\* A request that ran through all its writes left what the whole handler
\* leaves.
WritesAmountToHandler ==
    (st_last # NoResult /\ st_last.done = Len(st_last.writes))
        => TheStore = st_last.after

\* C21: a create_entry or delete_entry stopped between two writes leaves
\* latest and the index both as they were before the request or both as the
\* whole request leaves them.
C21_StoppedIsAllOrNothing ==
    (st_last # NoResult /\ st_last.stopped) =>
        \/ /\ st_latest = st_last.before.latest
           /\ st_index = st_last.before.index
        \/ /\ st_latest = st_last.after.latest
           /\ st_index = st_last.after.index

\* C22: create_entry writes the entry, the index, the archived snapshot and
\* latest in this order, so in every state of a create whose write of latest
\* is done, the entry document, the index row and the archived snapshot are
\* in the store.
C22_LatestWrittenLast ==
    (st_last # NoResult /\ st_last.op = "create" /\ "latest" \in Written) =>
        LET key == Dashed(st_last.arg)
        IN  /\ {"entries", "index", "snapshots"} \subseteq Written
            /\ st_latest = st_last.after.latest
            /\ key \in DOMAIN st_entries
            /\ st_entries[key] = st_last.after.entries[key]
            /\ st_index = st_last.after.index
            /\ Len(st_index) > 0
            /\ st_index[Len(st_index)] = IndexRow(st_entries[key])
            /\ key \in DOMAIN st_snapshots
            /\ st_snapshots[key] = st_latest

\* A create has just written latest, which differs from the latest it read.
C22_Witness ==
    /\ st_last # NoResult
    /\ st_last.op = "create"
    /\ st_last.done = 4
    /\ st_last.writes[4].doc = "latest"
    /\ st_latest # st_last.before.latest

---------------------------------------------------------------------------
(* The ledger's four writers of entries together: entries are created and  *)
(* deleted, statements imported and rows reviewed, in any order.           *)

\* Imports stop once the index holds this many rows, and at most MaxBookOps
\* creates, deletes and reviews happen in a run.
MaxBookRows == 1
MaxBookOps == 2

\* POST /ledger/upload, while the index is short.
BookUpload == Upload /\ Len(st_index') <= MaxBookRows

\* POST /ledger/new.
BookCreate == st_ops < MaxBookOps /\ CreateEntry

\* POST /ledger/delete/<entry_id>.
BookDelete == st_ops < MaxBookOps /\ DeleteEntry

\* POST /ledger/review, counted with the creates and deletes.
BookReview == Reviews(MaxBookOps)

NextBook == Tick \/ BookCreate \/ BookDelete \/ BookUpload \/ BookReview

SpecBook == InitStore /\ [][NextBook]_vars

\* C23: every row of the index has an entry document under the key of the
\* row's id, and the document's id, ts, kind and amount are the row's.
C23_IndexRowsHaveEntries ==
    \A i \in 1..Len(st_index) :
        LET row == st_index[i]
            key == Dashed(row.id)
        IN  /\ key \in DOMAIN st_entries
            /\ st_entries[key].id = row.id
            /\ st_entries[key].ts = row.ts
            /\ st_entries[key].kind = row.kind
            /\ st_entries[key].amount = row.amount

---------------------------------------------------------------------------
(* Properties of the store operations, checked under SpecStore.            *)

\* The last operation was `op`.
LastOp(op) == st_last # NoResult /\ st_last.op = op

\* The entry a delete request found: the entry document under the id's key.
DeletedEntry == st_last.before.entries[Dashed(st_last.arg)]

\* C12: after a delete_entry that found its entry, the index has no row with
\* the id, the entry store has no document under the entry's key, the entry
\* is kept under the deleted key, and latest is the reversal of the entry on
\* the latest before.
C12_DeleteRemovesEntry ==
    (LastOp("delete") /\ st_last.ok
        /\ Dashed(st_last.arg) \in DOMAIN st_last.before.entries) =>
        /\ \A i \in 1..Len(st_index) : st_index[i].id # st_last.arg
        /\ Dashed(st_last.arg) \notin DOMAIN st_entries
        /\ st_last.arg \in DOMAIN st_deleted
        /\ st_deleted[st_last.arg] = DeletedEntry
        /\ st_latest = reverse_transaction(st_last.before.latest, DeletedEntry)

\* C13: a revert that succeeded stored the latest it found under a
\* manual-backup key that held nothing before, and latest is the snapshot it
\* was asked for; a revert to that backup key then restores the latest found.
C13_RevertIsRevertible ==
    (LastOp("revert") /\ st_last.ok) =>
        LET backup == ManualBackup(st_last.now)
        IN  /\ backup \notin DOMAIN st_last.before.snapshots
            /\ st_snapshots[backup] = st_last.before.latest
            /\ st_latest = st_last.before.snapshots[st_last.arg]
            /\ revert_to_snapshot(TheStore, backup, st_clock).store.latest
                  = st_last.before.latest

\* C14: a revert to an empty id or to an id without an archive record fails
\* and leaves every document of the store as it was.
C14_RevertFailureWritesNothing ==
    (LastOp("revert")
        /\ (st_last.arg = EmptyId
              \/ st_last.arg \notin DOMAIN st_last.before.snapshots)) =>
        /\ ~st_last.ok
        /\ TheStore = st_last.before

\* A failed revert to an id without a record, in a store that has other
\* records and a latest that differs from the first snapshot.
C14_Witness ==
    /\ LastOp("revert")
    /\ st_last.arg # EmptyId
    /\ st_last.arg \notin DOMAIN st_last.before.snapshots
    /\ st_last.before.snapshots # <<>>
    /\ st_latest # StartLatest
    /\ ~st_last.ok

\* C24: the index never holds two rows with the same id, and a create_entry
\* that succeeded found nothing stored under its entry key or its archive
\* key.
C24_EntryIdsUnique ==
    /\ \A i, j \in 1..Len(st_index) :
          i # j => st_index[i].id # st_index[j].id
    /\ (LastOp("create") /\ st_last.ok) =>
          /\ Dashed(st_last.arg) \notin DOMAIN st_last.before.entries
          /\ Dashed(st_last.arg) \notin DOMAIN st_last.before.snapshots

\* C25: after a create_entry or a delete_entry that succeeded, the archive
\* holds a record under the entry's id that equals the latest the operation
\* wrote.
C25_ArchivePerApplyAndDelete ==
    ((LastOp("create") \/ LastOp("delete")) /\ st_last.ok) =>
        /\ Dashed(st_last.arg) \in DOMAIN st_snapshots
        /\ st_snapshots[Dashed(st_last.arg)] = st_latest

\* C35: a delete_entry of an id that was deleted before, and has no row in
\* the index since, is rejected as not found and leaves latest and the index
\* as they were.
C35_SecondDeleteRejected ==
    (/\ LastOp("delete")
     /\ st_last.arg \in DOMAIN st_last.before.deleted
     /\ \A i \in 1..Len(st_last.before.index) :
           st_last.before.index[i].id # st_last.arg)
    => /\ ~st_last.ok
       /\ st_latest = st_last.before.latest
       /\ st_index = st_last.before.index

---------------------------------------------------------------------------
(* app/logic/plan_engine.py: compute_plan                                  *)
(*                                                                         *)
(* The snapshot's amounts are whole currency units, but for an account's   *)
(* balance, which may also carry a few ten-millionths of a unit            *)
(* (balance_e7).  The monthly figures are exact rationals with denominator *)
(* 48 (12 from the interval factors 52/12, 26/12 and 1/12, 4 from the 0.75 *)
(* take-home factor), so the model keeps each as its numerator: income48   *)
(* is 48 times income_monthly.  The emergency fund is the pair of its      *)
(* numerator (u48) and its ten-millionths (e7), ordered as the number      *)
(* u48 / 48 + e7 / 10^7: the ten-millionths, and the 1e-6 the ladder adds, *)
(* stay below 1/48 and decide a comparison only between equal numerators.  *)

RECURSIVE Sum(_)
\* sum() of a list of numbers
Sum(q) ==
    IF Len(q) = 0 THEN 0
    ELSE IF Len(q) = 1 THEN q[1]
    ELSE LET h == Len(q) \div 2
         IN  Sum(SubSeq(q, 1, h)) + Sum(SubSeq(q, h + 1, Len(q)))

\* 12 * MONTH_FACTORS.get((interval or "monthly").lower(), 1)
month_factor12(interval) ==
    CASE interval = "monthly"  -> 12
      [] interval = "biweekly" -> 26
      [] interval = "weekly"   -> 52
      [] interval = "annual"   -> 1
      [] OTHER                 -> 12

\* 12 * _to_monthly(amount, interval)
to_monthly12(amount, interval) == amount * month_factor12(interval)

CASH_TYPES == {"cash", "checking", "savings"}

\* 48 * income_monthly: pre-tax streams count for 75%.
income_monthly48(snapshot) ==
    LET incomes == snapshot.income_streams
    IN  Sum([i \in 1..Len(incomes) |->
                (IF incomes[i].after_tax THEN 4 ELSE 3)
                    * to_monthly12(incomes[i].amount, incomes[i].interval)])

\* 48 * monthly_required: recurring costs, minimum payments and groceries of
\* 400 a month per person, household_size read as `int(household_size or 1)`.
monthly_required48(snapshot) ==
    LET costs == snapshot.recurring_costs
        debts == snapshot.debts
        hh == OrElse(snapshot.household_size, 1)
        costs48 == Sum([i \in 1..Len(costs) |->
                           4 * to_monthly12(costs[i].amount, costs[i].interval)])
        min_payments == Sum([i \in 1..Len(debts) |-> debts[i].min_payment])
        groceries == 400 * hh
    IN  costs48 + 48 * min_payments + 48 * groceries

leftover48(snapshot) == income_monthly48(snapshot) - monthly_required48(snapshot)

\* hi_debts and med_debts: any debt at 10% APR or more, or between 4% and 10%,
\* with a positive balance.
has_hi_debts(snapshot) ==
    \E i \in 1..Len(snapshot.debts) :
        snapshot.debts[i].apr >= 10 /\ snapshot.debts[i].balance > 0

has_med_debts(snapshot) ==
    \E i \in 1..Len(snapshot.debts) :
        /\ 4 < snapshot.debts[i].apr
        /\ snapshot.debts[i].apr < 10
        /\ snapshot.debts[i].balance > 0

\* 48 * cash_now: the balances of the cash, checking and savings accounts.
cash_now48(snapshot) ==
    LET accounts == snapshot.accounts
    IN  48 * Sum([i \in 1..Len(accounts) |->
                    IF Lower(accounts[i].type) \in CASH_TYPES
                    THEN accounts[i].balance ELSE 0])

\* The ten-millionths of cash_now.
cash_now_e7(snapshot) ==
    LET accounts == snapshot.accounts
    IN  Sum([i \in 1..Len(accounts) |->
                IF Lower(accounts[i].type) \in CASH_TYPES
                THEN accounts[i].balance_e7 ELSE 0])

\* 48 * ef_now, less its ten-millionths
ef_now48(snapshot) == Max(0, cash_now48(snapshot) - monthly_required48(snapshot))

\* The ten-millionths of ef_now = max(0.0, cash_now - monthly_required).
ef_now_e7(snapshot) ==
    LET over == cash_now48(snapshot) - monthly_required48(snapshot)
        e7 == cash_now_e7(snapshot)
    IN  IF over > 0 \/ (over = 0 /\ e7 > 0) THEN e7 ELSE 0

\* The 1e-6 of the ladder's comparisons, in ten-millionths.
EPS_E7 == 10

\* `ef_now + 1e-6 < target`
short_of(ef_now, target) ==
    \/ ef_now.u48 < target
    \/ ef_now.u48 = target /\ ef_now.e7 + EPS_E7 < 0

\* `ef_now < target`
below(ef_now, target) ==
    \/ ef_now.u48 < target
    \/ ef_now.u48 = target /\ ef_now.e7 < 0

starter_ef_target48 == 48 * 1000

\* Mutant: the emergency-fund and debt rungs are tried before the deficit.
decide_step_deficit_last(leftover, ef_now, required, hi, has_match, med) ==
    IF short_of(ef_now, starter_ef_target48) THEN 1
    ELSE IF hi THEN 2
    ELSE IF short_of(ef_now, required * 6) THEN 3
    ELSE IF has_match THEN 4
    ELSE IF med THEN 5
    ELSE IF short_of(ef_now, required * 12) THEN 6
    ELSE IF leftover < 0 THEN 0
    ELSE 7

\* Mutant: the employer match is tried before the six-month reserve.
decide_step_match_before_reserve(leftover, ef_now, required, hi, has_match, med) ==
    IF leftover < 0 THEN 0
    ELSE IF short_of(ef_now, starter_ef_target48) THEN 1
    ELSE IF hi THEN 2
    ELSE IF has_match THEN 4
    ELSE IF short_of(ef_now, required * 6) THEN 3
    ELSE IF med THEN 5
    ELSE IF short_of(ef_now, required * 12) THEN 6
    ELSE 7

\* "Decide current step" (lines 242-257), on figures times 48.
decide_step(leftover, ef_now, required, hi, has_match, med) ==
    IF leftover < 0 THEN 0
    ELSE IF short_of(ef_now, starter_ef_target48) THEN 1
    ELSE IF hi THEN 2
    ELSE IF short_of(ef_now, required * 6) THEN 3
    ELSE IF has_match THEN 4
    ELSE IF med THEN 5
    ELSE IF short_of(ef_now, required * 12) THEN 6
    ELSE 7

\* ef_row(title, target)["status"]
ef_row_status(ef_now, target, leftover) ==
    LET progress == IF below(ef_now, target) THEN ef_now
                    ELSE [u48 |-> target, e7 |-> 0]
    IN  IF below(progress, target) /\ leftover >= 0 THEN "progress"
        ELSE IF ~below(progress, target) THEN "pass" ELSE "blocked"

\* compute_plan(snapshot): the current step and the status of steps 0..9
\* (status[i + 1] is the status of the step with id i).
compute_plan(snapshot) ==
    LET required == monthly_required48(snapshot)
        leftover == leftover48(snapshot)
        ef_now == [u48 |-> ef_now48(snapshot), e7 |-> ef_now_e7(snapshot)]
        hi == has_hi_debts(snapshot)
        med == has_med_debts(snapshot)
        has_match == snapshot.has_employer_plan
    IN  [current_step |->
             decide_step(leftover, ef_now, required, hi, has_match, med),
         leftover48 |-> leftover,
         required48 |-> required,
         ef_now48 |-> ef_now.u48,
         ef_now_e7 |-> ef_now.e7,
         status |->
             <<IF leftover < 0 THEN "block" ELSE "pass",
               ef_row_status(ef_now, starter_ef_target48, leftover),
               IF hi THEN "info" ELSE "pass",
               ef_row_status(ef_now, required * 6, leftover),
               IF has_match THEN "info" ELSE "skip",
               IF med THEN "info" ELSE "pass",
               ef_row_status(ef_now, required * 12, leftover),
               "info", "info", "info">>]

---------------------------------------------------------------------------
(* compute_plan as a state machine: one call on a drawn snapshot.          *)

IncomeStreams ==
    [amount : {500, 1000}, interval : {"monthly", "weekly", "annual"},
     after_tax : BOOLEAN]

RecurringCostLists ==
    {<<>>,
     <<[amount |-> 100, interval |-> "monthly"]>>,
     <<[amount |-> 100, interval |-> "biweekly"]>>}

PlanDebtLists ==
    {<<>>} \cup {<<d>> : d \in [apr : {4, 5, 10}, balance : {0, 1000},
                                min_payment : {50}]}

PlanAccountLists ==
    {<<a>> : a \in [type : {"checking", "Savings", "investment"},
                    balance : {0, 1500, 3000, 6000},
                    balance_e7 : {0, 0 - 5}]}

PlanSnapshots ==
    [household_size : {None, Some(2)},
     income_streams : UNION {SeqsOf(IncomeStreams, n) : n \in 0..MaxStreams},
     recurring_costs : RecurringCostLists,
     debts : PlanDebtLists,
     accounts : PlanAccountLists,
     has_employer_plan : BOOLEAN]

InitPlan ==
    /\ p_snap \in PlanSnapshots
    /\ p_plan = NoResult
    /\ LedgerIdle
    /\ ImportIdle
    /\ PayoffIdle
    /\ EstimateIdle
    /\ RaceIdle
    /\ HookIdle

\* plan = compute_plan(latest)
ComputePlan ==
    /\ p_plan = NoResult
    /\ p_plan' = compute_plan(p_snap)
    /\ UNCHANGED <<p_snap, ledger_vars, import_vars, payoff_vars,
                   estimate_vars,
                   race_vars,
                   hook_vars>>

NextPlan == ComputePlan

SpecPlan == InitPlan /\ [][NextPlan]_vars

---------------------------------------------------------------------------
(* Properties of compute_plan, checked under SpecPlan.                     *)

\* 48 times the snapshot's monthly income less its required monthly expenses,
\* from the snapshot's fields.
SnapshotLeftover48 ==
    LET hh == IF p_snap.household_size = None THEN 1
              ELSE p_snap.household_size[1]
        Monthly12(x) ==
            CASE x.interval = "weekly"   -> 52 * x.amount
              [] x.interval = "biweekly" -> 26 * x.amount
              [] x.interval = "annual"   -> x.amount
              [] OTHER                   -> 12 * x.amount
        income == Sum([i \in 1..Len(p_snap.income_streams) |->
                         IF p_snap.income_streams[i].after_tax
                         THEN 4 * Monthly12(p_snap.income_streams[i])
                         ELSE 3 * Monthly12(p_snap.income_streams[i])])
        costs == Sum([i \in 1..Len(p_snap.recurring_costs) |->
                         4 * Monthly12(p_snap.recurring_costs[i])])
        mins == Sum([i \in 1..Len(p_snap.debts) |->
                         48 * p_snap.debts[i].min_payment])
    IN  income - (costs + mins + 48 * 400 * hh)

\* C6: a snapshot whose leftover is negative is at step 0, whatever its
\* accounts, debts and employer-match flag.
C6_DeficitDominates ==
    (p_plan # NoResult /\ SnapshotLeftover48 < 0) => p_plan.current_step = 0

\* A deficit snapshot that every later rung of the ladder would place
\* elsewhere: a funded emergency fund, a medium-interest debt and an
\* employer match.
C6_Witness ==
    /\ p_plan # NoResult
    /\ SnapshotLeftover48 < 0
    /\ p_snap.has_employer_plan
    /\ p_snap.accounts[1].balance = 6000
    /\ Lower(p_snap.accounts[1].type) \in CASH_TYPES
    /\ p_snap.debts # <<>>
    /\ p_plan.current_step = 0

\* The plan's ef_now plus `slack` ten-millionths is below target / 48.
EfBelow(target, slack) ==
    \/ p_plan.ef_now48 < target
    \/ p_plan.ef_now48 = target /\ p_plan.ef_now_e7 + slack < 0

\* The condition of rung k of the ladder, on the plan's figures and the
\* snapshot's debts and employer-plan flag; an emergency-fund rung holds
\* when ef_now plus `slack` ten-millionths is below its target.
Rung(k, slack) ==
    CASE k = 0 -> p_plan.leftover48 < 0
      [] k = 1 -> EfBelow(48 * 1000, slack)
      [] k = 2 -> \E i \in 1..Len(p_snap.debts) :
                     p_snap.debts[i].apr >= 10 /\ p_snap.debts[i].balance > 0
      [] k = 3 -> EfBelow(6 * p_plan.required48, slack)
      [] k = 4 -> p_snap.has_employer_plan
      [] k = 5 -> \E i \in 1..Len(p_snap.debts) :
                     /\ p_snap.debts[i].apr > 4
                     /\ p_snap.debts[i].apr < 10
                     /\ p_snap.debts[i].balance > 0
      [] k = 6 -> EfBelow(12 * p_plan.required48, slack)
      [] OTHER -> TRUE

\* Rung k with ef_now itself below the target.
RungHolds(k) == Rung(k, 0)

\* C29, as stated: current_step is the lowest rung whose condition holds,
\* 7 when none of the rungs 0..6 holds, an emergency-fund rung holding
\* whenever ef_now is below its target.
C29_FirstMatchLadder ==
    p_plan # NoResult =>
        /\ p_plan.current_step \in 0..7
        /\ RungHolds(p_plan.current_step)
        /\ \A k \in 0..(p_plan.current_step - 1) : ~RungHolds(k)

\* C29: current_step is the lowest rung whose condition holds, 7 when none
\* of the rungs 0..6 holds, an emergency-fund rung holding when ef_now is
\* more than 1e-6 below its target.
C29_FirstMatchLadderWithTolerance ==
    p_plan # NoResult =>
        /\ p_plan.current_step \in 0..7
        /\ Rung(p_plan.current_step, 10)
        /\ \A k \in 0..(p_plan.current_step - 1) : ~Rung(k, 10)

\* A plan at step 3 although the conditions of the rungs 4, 5 and 6 hold
\* too.
C29_Witness ==
    /\ p_plan # NoResult
    /\ p_plan.current_step = 3
    /\ RungHolds(4)
    /\ RungHolds(5)
    /\ RungHolds(6)

\* The statuses a plan step may carry.
StatusVocabulary == {"pass", "progress", "block", "skip", "info"}

\* C19: every step of a plan returned by compute_plan has a status of the
\* vocabulary pass, progress, block, skip, info.
C19_StatusVocabulary ==
    p_plan # NoResult =>
        \A i \in 1..Len(p_plan.status) : p_plan.status[i] \in StatusVocabulary

\* ---------------------------------------------------------------------------
\* The debt-payoff simulator: simulate_debt_payoff of logic/plan_engine.py.
\*
\* Money is in mills, as in the ledger engine; APRs are whole percents.  A
\* month's interest, balance * apr / 100 / 12, is cut to the mill.  The
\* comparisons against 1e-8 are comparisons against 0 at this resolution.
\* ---------------------------------------------------------------------------

\* The cap of the monthly loop.
MonthCap == 3600

\* One sanitized copy of a debt, as the first loop builds it.
Item(d) ==
    [name           |-> d.name,
     balance        |-> Max(0, d.balance),
     balance_temp   |-> Max(0, d.balance),
     apr            |-> Max(0, d.apr),
     min_payment    |-> Max(0, d.min_payment),
     months_to_zero |-> None,
     interest_paid  |-> 0]

\* "Copy & sanitize": debts without a positive balance are left out.
sanitize(debts) ==
    SelectSeq([i \in 1..Len(debts) |-> Item(debts[i])],
              LAMBDA x : x.balance > 0)

\* The sort keys: (balance, -apr) for snowball, (-apr, balance) otherwise.
KeyBefore(a, b, order) ==
    IF order = "snowball"
    THEN a.balance < b.balance \/ (a.balance = b.balance /\ a.apr > b.apr)
    ELSE a.apr > b.apr \/ (a.apr = b.apr /\ a.balance < b.balance)

\* The key of an item: the two fields the strategies sort by.
SortKey(x) == [balance |-> x.balance, apr |-> x.apr]

RECURSIVE sort_groups(_, _, _)
\* The items whose key is in `keys`, key by key from the first key on, the
\* items of one key in the order they have in `items`.
sort_groups(items, keys, order) ==
    IF keys = {} THEN <<>>
    ELSE LET k == CHOOSE a \in keys :
                     \A b \in keys : ~KeyBefore(b, a, order)
         IN  SelectSeq(items, LAMBDA x : SortKey(x) = k)
                \o sort_groups(items, keys \ {k}, order)

\* list.sort with the strategy's key: stable, so equal keys keep their order.
sort_items(items, order) ==
    sort_groups(items, {SortKey(items[i]) : i \in 1..Len(items)}, order)

\* A variant that throws the lump sum at the top debt only.
lump_loop_top_debt_only(items, remaining_lump, lump_applied, i, pay) ==
    IF remaining_lump > 0 /\ i <= Len(items)
    THEN LET p       == Min(items[i].balance_temp, remaining_lump)
             left    == items[i].balance_temp - p
             cleared == left <= 0
             it      == [items[i] EXCEPT
                           !.balance_temp   = IF cleared THEN 0 ELSE left,
                           !.months_to_zero = IF cleared THEN Some(0) ELSE @]
         IN  [items |-> [items EXCEPT ![i] = it],
              lump_applied |-> lump_applied + p, pay |-> p]
    ELSE [items |-> items, lump_applied |-> lump_applied, pay |-> pay]

\* The lump-sum loop at time 0.  `i` is the 1-based position in `items`.
RECURSIVE lump_loop(_, _, _, _, _)
lump_loop(items, remaining_lump, lump_applied, i, pay) ==
    IF remaining_lump > 0 /\ i <= Len(items)
    THEN LET p       == Min(items[i].balance_temp, remaining_lump)
             left    == items[i].balance_temp - p
             cleared == left <= 0
             it      == [items[i] EXCEPT
                           !.balance_temp   = IF cleared THEN 0 ELSE left,
                           !.months_to_zero = IF cleared THEN Some(0) ELSE @]
         IN  lump_loop([items EXCEPT ![i] = it], remaining_lump - p,
                       lump_applied + p, IF cleared THEN i + 1 ELSE i, p)
    ELSE [items |-> items, lump_applied |-> lump_applied, pay |-> pay]

all_paid(items) == \A i \in 1..Len(items) : items[i].balance_temp <= 0

\* A month's interest on a remaining balance.
interest_of(d) == (d.balance_temp * d.apr) \div 1200

\* Step 1 of a month: accrue interest on every unpaid debt.
accrue(items) ==
    [i \in 1..Len(items) |->
        IF items[i].balance_temp <= 0 THEN items[i]
        ELSE [items[i] EXCEPT
                !.balance_temp  = @ + interest_of(items[i]),
                !.interest_paid = @ + interest_of(items[i])]]

\* The interest step 1 adds to total_interest.
accrued_total(items) ==
    Sum([i \in 1..Len(items) |->
            IF items[i].balance_temp <= 0 THEN 0 ELSE interest_of(items[i])])

\* Step 2 of a month, "pay minimums".  The code computes
\* p = min(min_payment, balance_work) and does not use it: the new remaining
\* balance is the debt's original balance less the function's variable `pay`.
pay_minimums(items, pay, months) ==
    [i \in 1..Len(items) |->
        IF items[i].balance_temp <= 0 THEN items[i]
        ELSE LET balance_work == items[i].balance - pay
             IN  IF balance_work <= 0 /\ IsNone(items[i].months_to_zero)
                 THEN [items[i] EXCEPT !.balance_temp   = 0,
                                       !.months_to_zero = Some(months)]
                 ELSE [items[i] EXCEPT !.balance_temp = balance_work]]

\* Step 3 of a month, the extra payment, from position i on: the loop goes
\* on to the next debt with a remaining balance, and stops when the extra is
\* used up.  The remaining balance is set back to balance_work, its value
\* before the payment, unless the payment cleared the debt.
RECURSIVE apply_extra(_, _, _, _, _)
apply_extra(items, i, extra, pay, months) ==
    LET unpaid == {j \in i..Len(items) : items[j].balance_temp > 0}
    IN  IF extra <= 0 \/ unpaid = {}
        THEN [items |-> items, pay |-> pay]
        ELSE LET k       == CHOOSE j \in i..Len(items) :
                               /\ items[j].balance_temp > 0
                               /\ \A h \in i..(j - 1) :
                                     items[h].balance_temp <= 0
                 d       == items[k]
                 p       == Min(d.balance_temp, extra)
                 cleared == d.balance_temp - p <= 0 /\ IsNone(d.months_to_zero)
                 it      == [d EXCEPT
                               !.balance_temp   = IF cleared THEN 0
                                                  ELSE d.balance_temp,
                               !.months_to_zero = IF cleared THEN Some(months)
                                                  ELSE @]
             IN  apply_extra([items EXCEPT ![k] = it], k + 1, extra - p, p,
                             months)

\* After the loop: months_to_zero filled in, amounts rounded for display.
finish_items(items, months) ==
    [i \in 1..Len(items) |->
        [items[i] EXCEPT
           !.months_to_zero = IF IsNone(@) /\ items[i].balance_temp <= 0
                              THEN Some(months) ELSE @,
           !.balance        = Round2(Max(0, @)),
           !.interest_paid  = Round2(@)]]

\* The returned dict.
payoff_result(order, items, months, lump_applied, total_interest, extra) ==
    [method         |-> order,
     lump_applied   |-> Round2(lump_applied),
     monthly_extra  |-> Round2(extra),
     months_total   |-> IF months < MonthCap THEN Some(months) ELSE None,
     interest_total |-> Round2(total_interest),
     debts          |-> finish_items(items, months)]

\* The return taken when no debt has a positive balance.
payoff_empty(order, extra) ==
    [method         |-> order,
     lump_applied   |-> 0,
     monthly_extra  |-> extra,
     months_total   |-> Some(0),
     interest_total |-> 0,
     debts          |-> <<>>]

Debt(name, balance, apr, min_payment) ==
    [name |-> name, balance |-> balance, apr |-> apr,
     min_payment |-> min_payment]

\* Debt lists: the two debts of the specification's scenario in both orders,
\* one small debt, one debt whose minimum payment is below its interest, and
\* one debt with no balance.
PayoffDebtLists ==
    { <<Debt("A", 1000000, 20, 20000), Debt("B", 2000000, 10, 30000)>>,
      <<Debt("B", 2000000, 10, 30000), Debt("A", 1000000, 20, 20000)>>,
      <<Debt("S", 100000, 12, 20000)>>,
      <<Debt("U", 1200000, 12, 10000)>>,
      <<Debt("Z", 0, 12, 20000)>> }

PayoffExtras == {0, 60000}

\* Lump sums: none, one that is not a whole number of cents, one that clears
\* the small debt, and one that clears A and part of B.
PayoffLumps == {0, 30004, 150000, 1500000}

PayoffOrders == {"avalanche", "snowball"}

InitPayoff ==
    /\ s_args \in [debts : PayoffDebtLists, monthly_extra : PayoffExtras,
                   lump_sum : PayoffLumps, order : PayoffOrders]
    /\ s_items = <<>>
    /\ s_pay = 0
    /\ s_months = 0
    /\ s_interest = 0
    /\ s_lump = 0
    /\ s_pc = "start"
    /\ s_result = NoResult
    /\ LedgerIdle
    /\ ImportIdle
    /\ PlanIdle
    /\ EstimateIdle
    /\ RaceIdle
    /\ HookIdle

\* Everything before the monthly loop: sanitize, sort, lump sum.
SimStart ==
    /\ s_pc = "start"
    /\ LET items == sanitize(s_args.debts)
           lump  == lump_loop(sort_items(items, s_args.order),
                              Max(0, s_args.lump_sum), 0, 1, 0)
       IN  IF items = <<>>
           THEN /\ s_pc' = "done"
                /\ s_result' = payoff_empty(s_args.order, s_args.monthly_extra)
                /\ UNCHANGED <<s_items, s_pay, s_lump>>
           ELSE /\ s_pc' = "loop"
                /\ s_items' = lump.items
                /\ s_pay' = lump.pay
                /\ s_lump' = lump.lump_applied
                /\ UNCHANGED s_result
    /\ UNCHANGED <<s_args, s_months, s_interest>>
    /\ UNCHANGED <<ledger_vars, import_vars, plan_vars, estimate_vars,
                   race_vars,
                   hook_vars>>

\* One iteration of the monthly loop.
SimMonth ==
    /\ s_pc = "loop"
    /\ ~all_paid(s_items)
    /\ s_months < MonthCap
    /\ LET months  == s_months + 1
           accrued == accrue(s_items)
           paid    == pay_minimums(accrued, s_pay, months)
           extra   == apply_extra(paid, 1, Max(0, s_args.monthly_extra),
                                  s_pay, months)
       IN  /\ s_months' = months
           /\ s_interest' = s_interest + accrued_total(s_items)
           /\ s_items' = sort_items(extra.items, s_args.order)
           /\ s_pay' = extra.pay
    /\ UNCHANGED <<s_args, s_lump, s_pc, s_result>>
    /\ UNCHANGED <<ledger_vars, import_vars, plan_vars, estimate_vars,
                   race_vars,
                   hook_vars>>

\* The loop's exit and the return.
SimReturn ==
    /\ s_pc = "loop"
    /\ ~(~all_paid(s_items) /\ s_months < MonthCap)
    /\ s_pc' = "done"
    /\ s_result' = payoff_result(s_args.order, s_items, s_months, s_lump,
                                 s_interest, s_args.monthly_extra)
    /\ UNCHANGED <<s_args, s_items, s_pay, s_months, s_interest, s_lump>>
    /\ UNCHANGED <<ledger_vars, import_vars, plan_vars, estimate_vars,
                   race_vars,
                   hook_vars>>

NextPayoff == SimStart \/ SimMonth \/ SimReturn

SpecPayoff == InitPayoff /\ [][NextPayoff]_vars

\* The debt's minimum payment exceeds a month's interest on its balance:
\* min_payment > balance * apr / 1200.
Amortizes(d) == d.balance > 0 /\ 1200 * d.min_payment > d.balance * d.apr

\* C7: an avalanche simulation of a debt list with at least one debt whose
\* minimum payment exceeds its monthly interest returns a months_total that
\* is not null and is at most 3600.
C7_PayoffTerminatesWithResult ==
    (/\ s_pc = "done"
     /\ s_args.order = "avalanche"
     /\ \E i \in 1..Len(s_args.debts) : Amortizes(s_args.debts[i]))
    => (/\ ~IsNone(s_result.months_total)
        /\ s_result.months_total[1] <= MonthCap)

\* The items as steps 1 and 2 of the coming month leave them, before the
\* extra payment of step 3.
BeforeExtra == pay_minimums(accrue(s_items), s_pay, s_months + 1)

\* The positions of the debts still unpaid when step 3 starts.
UnpaidBeforeExtra ==
    {i \in 1..Len(BeforeExtra) : BeforeExtra[i].balance_temp > 0}

\* The first unpaid debt in strategy order when step 3 starts.
ExtraTarget ==
    BeforeExtra[CHOOSE i \in UnpaidBeforeExtra :
                    \A j \in UnpaidBeforeExtra : i <= j]

\* C11: in a month with monthly_extra > 0, the extra payment lowers the
\* remaining balance of the first unpaid debt in strategy order by
\* min(extra, its remaining balance).
C11_ExtraReducesFirstUnpaid ==
    [][(/\ s_pc = "loop"
        /\ s_months' = s_months + 1
        /\ s_args.monthly_extra > 0
        /\ UnpaidBeforeExtra # {})
       => \E j \in 1..Len(s_items') :
             /\ s_items'[j].name = ExtraTarget.name
             /\ s_items'[j].balance_temp =
                   ExtraTarget.balance_temp
                   - Min(s_args.monthly_extra, ExtraTarget.balance_temp)]_vars

\* ---------------------------------------------------------------------------
\* The simulation at the cap.  A debt list whose last debt is cleared in the
\* month of the cap itself: MonthCap / 2 debts of 180.00 without interest and
\* 100.00 extra a month.  In an odd month the extra payment is put back and
\* `pay` is left at 100.00; in the even month after it step 2 brings every
\* unpaid debt to 80.00 and step 3 clears the first of them.
\* ---------------------------------------------------------------------------

CapDebtCount == MonthCap \div 2

CapRequest ==
    [debts |-> [i \in 1..CapDebtCount |-> Debt(ToString(i), 180000, 0, 20000)],
     monthly_extra |-> 100000, lump_sum |-> 0, order |-> "avalanche"]

\* The items of CapRequest at the end of the even month m: the first m / 2
\* debts cleared, one every second month, the others at 80.00.
CapItemsAfter(m) ==
    [i \in 1..CapDebtCount |->
        [name           |-> ToString(i),
         balance        |-> 180000,
         balance_temp   |-> IF 2 * i <= m THEN 0 ELSE 80000,
         apr            |-> 0,
         min_payment    |-> 20000,
         months_to_zero |-> IF 2 * i <= m THEN Some(2 * i) ELSE None,
         interest_paid  |-> 0]]

\* The call simulate_debt_payoff(CapRequest) from its start.
InitCapRun ==
    /\ s_args = CapRequest
    /\ s_items = <<>>
    /\ s_pay = 0
    /\ s_months = 0
    /\ s_interest = 0
    /\ s_lump = 0
    /\ s_pc = "start"
    /\ s_result = NoResult
    /\ LedgerIdle
    /\ ImportIdle
    /\ PlanIdle
    /\ EstimateIdle
    /\ RaceIdle
    /\ HookIdle

SpecCapRun == InitCapRun /\ [][NextPayoff]_vars

\* The call's state at the end of every even month before the cap; in
\* particular, two months before the cap, one debt is left.  An invariant
\* of SpecCapRun.
CapRunState ==
    (s_pc = "loop" /\ s_months % 2 = 0 /\ s_months \in 1..(MonthCap - 1)) =>
        /\ s_items = CapItemsAfter(s_months)
        /\ s_pay = 20000
        /\ s_interest = 0
        /\ s_lump = 0

\* The same call taken up two months before the cap.
InitAtCap ==
    /\ s_args = CapRequest
    /\ s_items = CapItemsAfter(MonthCap - 2)
    /\ s_pay = 20000
    /\ s_months = MonthCap - 2
    /\ s_interest = 0
    /\ s_lump = 0
    /\ s_pc = "loop"
    /\ s_result = NoResult
    /\ LedgerIdle
    /\ ImportIdle
    /\ PlanIdle
    /\ EstimateIdle
    /\ RaceIdle
    /\ HookIdle

\* The calls of SpecPayoff, and the call on CapRequest in its last two
\* months.
SpecPayoffAtCap == (InitPayoff \/ InitAtCap) /\ [][NextPayoff]_vars

\* The month in which the last debt of the result reached zero; 0 for an
\* empty result.
LastMonthToZero ==
    LET ds == s_result.debts
    IN  IF ds = <<>> THEN 0
        ELSE CHOOSE m \in {ds[i].months_to_zero[1] : i \in 1..Len(ds)} :
                \A i \in 1..Len(ds) : ds[i].months_to_zero[1] <= m

\* C20: a simulation returns after at most 3600 months; months_total is
\* null exactly when the cap was reached with a debt still unpaid, and
\* when every debt reached zero it is the month in which the last one did.
C20_MonthsTotalNullOnlyAtCapUnpaid ==
    s_pc = "done" =>
        /\ s_months <= MonthCap
        /\ IsNone(s_result.months_total)
              <=> (s_months = MonthCap /\ ~all_paid(s_items))
        /\ all_paid(s_items) =>
              s_result.months_total = Some(LastMonthToZero)

\* C30: in a month without an extra payment, every unpaid debt ends the
\* month at its remaining balance plus the month's interest on it, less
\* min(its minimum payment, that sum).
C30_MonthAccruesThenPaysMinimum ==
    [][(/\ s_pc = "loop"
        /\ s_months' = s_months + 1
        /\ s_args.monthly_extra = 0)
       => \A i \in 1..Len(s_items) :
             s_items[i].balance_temp > 0 =>
                \E j \in 1..Len(s_items') :
                   /\ s_items'[j].name = s_items[i].name
                   /\ LET owed == s_items[i].balance_temp
                                     + interest_of(s_items[i])
                      IN  s_items'[j].balance_temp
                             = owed - Min(s_items[i].min_payment, owed)]_vars

\* The debts of the call in the strategy's order, before the lump sum.
SortedDebts == sort_items(sanitize(s_args.debts), s_args.order)

\* The balances of the first k debts in that order, added up.
Owed(k) == Sum([i \in 1..k |-> SortedDebts[i].balance])

\* The lump sum of the call, and the part of it the debts can take.
LumpGiven == Max(0, s_args.lump_sum)
LumpTaken == Min(LumpGiven, Owed(Len(SortedDebts)))

\* The positions the lump sum clears: it covers the debt and all before it.
LumpCleared == {i \in 1..Len(SortedDebts) : Owed(i) <= LumpGiven}

\* Right after the lump sum, before the first month: the debts are in the
\* strategy's order; the cleared ones have nothing left and months_to_zero 0;
\* the first one not cleared has its balance less what the lump sum had left;
\* the ones after it are untouched.
LumpAtMonthZero ==
    (s_pc = "loop" /\ s_months = 0) =>
        /\ Len(s_items) = Len(SortedDebts)
        /\ s_lump = LumpTaken
        /\ \A i \in 1..Len(s_items) :
              /\ s_items[i].name = SortedDebts[i].name
              /\ i \in LumpCleared =>
                    /\ s_items[i].balance_temp = 0
                    /\ s_items[i].months_to_zero = Some(0)
              /\ i \notin LumpCleared =>
                    /\ s_items[i].months_to_zero = None
                    /\ s_items[i].balance_temp =
                          SortedDebts[i].balance
                             - Max(0, LumpGiven - Owed(i - 1))
        /\ Cardinality({i \in 1..Len(s_items) :
                           /\ s_items[i].balance_temp > 0
                           /\ s_items[i].balance_temp < s_items[i].balance}) <= 1

\* In the result, every debt the lump sum cleared has months_to_zero 0.
LumpClearedAtZero ==
    s_pc = "done" =>
        \A i \in LumpCleared :
            \E j \in 1..Len(s_result.debts) :
                /\ s_result.debts[j].name = SortedDebts[i].name
                /\ s_result.debts[j].months_to_zero = Some(0)

\* C31 as stated: the lump sum goes to the debts in strategy order, each
\* cleared before the next receives anything; lump_applied is
\* min(lump_sum, sum of the balances); cleared debts have months_to_zero 0;
\* at most one debt is left partially paid.
C31_LumpSumInOrder ==
    /\ LumpAtMonthZero
    /\ LumpClearedAtZero
    /\ s_pc = "done" => s_result.lump_applied = LumpTaken

\* C31, amended: as above, with lump_applied equal to min(lump_sum, sum of
\* the balances) rounded to 2 decimals.
C31_LumpSumInOrderRounded ==
    /\ LumpAtMonthZero
    /\ LumpClearedAtZero
    /\ s_pc = "done" => s_result.lump_applied = Round2(LumpTaken)

\* A result of a call whose lump sum cleared the first of two debts and
\* left the second partially paid.
C31_Witness ==
    /\ s_pc = "done"
    /\ Len(SortedDebts) = 2
    /\ LumpCleared = {1}
    /\ LumpGiven > Owed(1)
    /\ s_result.lump_applied = LumpGiven

---------------------------------------------------------------------------
(* app/blueprints/plan.py: _months_to_payoff, the standalone estimate of   *)
(* the months a debt takes under its minimum payment.  Balances and        *)
(* payments are in cents, the APR in whole percent.                        *)

\* The APRs whose monthly rate `apr / 100.0 / 12.0` is, in binary64, below
\* apr/1200, and stays below it when multiplied by the model's balances:
\* 15 / 100.0 / 12.0 is 0.012499999999999999, and times 1000 and 2000 it is
\* 12.499999999999998 and 24.999999999999996.  For 0 and 12 the products
\* are exact.
Binary64ShortRates == {15}

\* What the closed formula returns, in binary64, for a payment equal to the
\* month's interest at a short rate: log(P / (P - r * B)) / log(1 + r) with
\* P - r * B one unit in the last place of 25.
Binary64TieMonths == 2938

\* `P <= r * B` as the floats compare: the product of a short rate is just
\* below apr * B / 1200.
payment_within_interest(B, apr, P) ==
    IF apr \in Binary64ShortRates THEN 1200 * P < apr * B
    ELSE 1200 * P <= apr * B

\* ceil(B / P) for positive B and P.
CeilDiv(B, P) == (B + P - 1) \div P

\* A month's interest on a balance given in units of 1/1200 cent.
month_interest(B1200, apr) ==
    (B1200 \div 1200) * apr + ((B1200 % 1200) * apr) \div 1200

RECURSIVE balance_after(_, _, _, _)
\* The balance, in units of 1/1200 cent, after k more payments of P, or the
\* first balance of zero or less before that.
balance_after(B1200, apr, P, k) ==
    IF k = 0 \/ B1200 <= 0 THEN B1200
    ELSE balance_after(B1200 + month_interest(B1200, apr) - 1200 * P,
                       apr, P, k - 1)

RECURSIVE payments_until_zero(_, _, _, _)
\* The number of payments of P that bring B to zero at the monthly rate
\* apr/1200: what int(ceil(log(P / (P - r * B)) / log(1 + r))) counts.  It
\* is counted a year at a time, and month by month in the last year.
payments_until_zero(B1200, apr, P, n) ==
    IF B1200 <= 0 THEN n
    ELSE IF balance_after(B1200, apr, P, 12) > 0
    THEN payments_until_zero(balance_after(B1200, apr, P, 12), apr, P, n + 12)
    ELSE n + Cardinality({k \in 0..11 : balance_after(B1200, apr, P, k) > 0})

\* _months_to_payoff(balance, apr_percent, min_payment): Some(n) for n months,
\* None for "never".
months_to_payoff(balance, apr_percent, min_payment) ==
    IF balance <= 0 THEN Some(0)
    ELSE IF min_payment <= 0 THEN None
    ELSE IF apr_percent = 0 THEN Some(CeilDiv(balance, min_payment))
    ELSE IF payment_within_interest(balance, apr_percent, min_payment)
    THEN None
    ELSE IF 1200 * min_payment = apr_percent * balance
    THEN Some(Binary64TieMonths)
    ELSE Some(payments_until_zero(1200 * balance, apr_percent, min_payment, 0))

\* The arguments of the calls: no balance, a negative one, 1000 and 2000; no
\* interest, 12 and 15 percent; payments below, at and above the month's
\* interest.
EstimateBalances == {0 - 100000, 0, 100000, 200000}
EstimateRates == {0, 12, 15}
EstimatePayments == {0 - 500, 0, 1000, 1200, 2000, 2500, 2600, 30000}

InitEstimate ==
    /\ e_args \in [balance : EstimateBalances, apr_percent : EstimateRates,
                   min_payment : EstimatePayments]
    /\ e_result = NoResult
    /\ LedgerIdle
    /\ ImportIdle
    /\ PlanIdle
    /\ PayoffIdle
    /\ RaceIdle
    /\ HookIdle

\* One call of _months_to_payoff.
Estimate ==
    /\ e_args # NoResult
    /\ e_result = NoResult
    /\ e_result' = [months |-> months_to_payoff(e_args.balance,
                                                e_args.apr_percent,
                                                e_args.min_payment)]
    /\ UNCHANGED e_args
    /\ UNCHANGED <<ledger_vars, import_vars, plan_vars, payoff_vars,
                   race_vars,
                   hook_vars>>

NextEstimate == Estimate

SpecEstimate == InitEstimate /\ [][NextEstimate]_vars

\* C32: the estimate is 0 for a balance of 0 or less; it is "never" when the
\* minimum payment is 0 or less or does not exceed the month's interest
\* balance * APR / 1200; else it is a positive number of months.
C32_EstimateFlagsUnpayable ==
    e_result # NoResult =>
        LET B == e_args.balance
            P == e_args.min_payment
            m == e_result.months
        IN  IF B <= 0 THEN m = Some(0)
            ELSE IF P <= 0 \/ 1200 * P <= e_args.apr_percent * B THEN m = None
            ELSE m # None /\ m[1] > 0

---------------------------------------------------------------------------
(* create_entry, two requests of one user side by side: each store read    *)
(* and each store write of the handler is a step of its request.           *)

\* The requests.
Requests == {1, 2}

\* A request that has not read anything yet.
Waiting(tx) ==
    [pc |-> "start", tx |-> tx, latest |-> NoResult, now |-> 0,
     updated |-> NoResult, entry |-> NoResult, idx |-> <<>>, order |-> 0]

InitRace ==
    /\ EmptyStore
    /\ st_latest = StartLatest
    /\ c_reqs \in [Requests -> {Waiting(tx) : tx \in StoreTxs}]
    /\ LedgerIdle
    /\ PlanIdle
    /\ PayoffIdle
    /\ EstimateIdle
    /\ HookIdle

\* What a step of a request leaves alone besides the store.
RaceFrame ==
    /\ UNCHANGED <<imp_last, st_deleted, st_last, st_ops>>
    /\ UNCHANGED <<ledger_vars, plan_vars, payoff_vars, estimate_vars,
                   hook_vars>>

\* A second passes.
RaceTick ==
    /\ st_clock < MaxClock
    /\ st_clock' = st_clock + 1
    /\ UNCHANGED <<st_index, st_entries, st_latest, st_snapshots, c_reqs>>
    /\ RaceFrame

\* `latest = current_app.gcs.read_json(...)` and `ts_now = _now_iso()`.
ReadLatest ==
    \E p \in Requests :
        /\ c_reqs[p].pc = "start"
        /\ c_reqs' = [c_reqs EXCEPT ![p].pc = "read", ![p].latest = st_latest,
                                    ![p].now = st_clock]
        /\ UNCHANGED <<st_index, st_entries, st_latest, st_snapshots, st_clock>>
        /\ RaceFrame

\* apply_transaction and `store.write_json(entry_path, entry)`; a ValueError
\* of apply_transaction ends the request.
WriteEntry ==
    \E p \in Requests :
        /\ c_reqs[p].pc = "read"
        /\ LET r     == apply_transaction(c_reqs[p].latest, c_reqs[p].tx)
               id    == NowIso(c_reqs[p].now)
               entry == Stored(id, c_reqs[p].now, "", r.entry)
           IN  IF ~r.ok
               THEN /\ c_reqs' = [c_reqs EXCEPT ![p].pc = "raised"]
                    /\ UNCHANGED st_entries
               ELSE /\ c_reqs' = [c_reqs EXCEPT ![p].pc = "entry",
                                                ![p].updated = r.snapshot,
                                                ![p].entry = entry]
                    /\ st_entries' = Put(st_entries, Dashed(id), entry)
        /\ UNCHANGED <<st_index, st_latest, st_snapshots, st_clock>>
        /\ RaceFrame

\* _append_index: `idx = store.read_json(idx_path) or []`.
ReadIndex ==
    \E p \in Requests :
        /\ c_reqs[p].pc = "entry"
        /\ c_reqs' = [c_reqs EXCEPT ![p].pc = "idx", ![p].idx = st_index]
        /\ UNCHANGED <<st_index, st_entries, st_latest, st_snapshots, st_clock>>
        /\ RaceFrame

\* _append_index: `idx.append({...})` and `store.write_json(idx_path, idx)`.
WriteIndex ==
    \E p \in Requests :
        /\ c_reqs[p].pc = "idx"
        /\ st_index' = Append(c_reqs[p].idx, IndexRow(c_reqs[p].entry))
        /\ c_reqs' = [c_reqs EXCEPT ![p].pc = "index"]
        /\ UNCHANGED <<st_entries, st_latest, st_snapshots, st_clock>>
        /\ RaceFrame

\* `store.write_json(f"{prefix}snapshots/{snap_ts}.json", updated)`.
WriteSnapshot ==
    \E p \in Requests :
        /\ c_reqs[p].pc = "index"
        /\ st_snapshots' = Put(st_snapshots, Dashed(NowIso(c_reqs[p].now)),
                               c_reqs[p].updated)
        /\ c_reqs' = [c_reqs EXCEPT ![p].pc = "snapshot"]
        /\ UNCHANGED <<st_index, st_entries, st_latest, st_clock>>
        /\ RaceFrame

\* `store.write_json(f"{prefix}latest.json", updated)`; `order` is 1 for the
\* first request that writes latest and 2 for the second.
WriteLatest ==
    \E p \in Requests :
        /\ c_reqs[p].pc = "snapshot"
        /\ st_latest' = c_reqs[p].updated
        /\ c_reqs' = [c_reqs EXCEPT
                        ![p].pc = "done",
                        ![p].order = 1 + Cardinality({q \in Requests :
                                                c_reqs[q].pc = "done"})]
        /\ UNCHANGED <<st_index, st_entries, st_snapshots, st_clock>>
        /\ RaceFrame

NextRace ==
    \/ RaceTick
    \/ ReadLatest
    \/ WriteEntry
    \/ ReadIndex
    \/ WriteIndex
    \/ WriteSnapshot
    \/ WriteLatest

SpecRace == InitRace /\ [][NextRace]_vars

\* Both requests have written latest.
BothDone == \A p \in Requests : c_reqs # <<>> /\ c_reqs[p].pc = "done"

\* Both requests read latest before either wrote it: each read the latest
\* the run started with.
BothReadFirst == \A p \in Requests : c_reqs[p].latest = StartLatest

\* The request that wrote latest last.
LastWriter == CHOOSE p \in Requests : c_reqs[p].order = 2

\* The requests ran one after the other: one read the latest the other
\* had written.
OneAfterTheOther ==
    \E p, q \in Requests :
        /\ p # q
        /\ c_reqs[p].latest = StartLatest
        /\ c_reqs[q].latest = c_reqs[p].updated

\* latest with both transactions applied, in the order the requests wrote.
BothApplied ==
    LET first  == CHOOSE p \in Requests : c_reqs[p].order = 1
        after1 == apply_transaction(StartLatest, c_reqs[first].tx).snapshot
    IN  apply_transaction(after1, c_reqs[LastWriter].tx).snapshot

\* C33: when both create_entry requests read latest before either wrote it,
\* both entry records are stored and latest is the snapshot of the request
\* that wrote it last, without the other transaction's effect; when the
\* requests run one after the other, latest has both effects.
C33_LastWriterWins ==
    BothDone =>
        /\ BothReadFirst =>
              /\ \A p \in Requests :
                    /\ Dashed(NowIso(c_reqs[p].now)) \in DOMAIN st_entries
                    /\ st_entries[Dashed(NowIso(c_reqs[p].now))]
                          = c_reqs[p].entry
              /\ st_latest = c_reqs[LastWriter].updated
              /\ st_latest = apply_transaction(StartLatest,
                                               c_reqs[LastWriter].tx).snapshot
              /\ st_latest # BothApplied
        /\ OneAfterTheOther => st_latest = BothApplied

\* The same for requests stamped in different seconds.
LastWriterWinsAcrossSeconds ==
    (BothDone /\ c_reqs[1].now # c_reqs[2].now) => C33_LastWriterWins

---------------------------------------------------------------------------
(* app/blueprints/onboarding.py: onboarding_submit, and                    *)
(* app/logic/plan_engine.py: update_accounts_snapshot, the two writers of  *)
(* the accounts and debts of latest besides the ledger.                    *)

\* At most this many onboarding submissions and account operations in a run,
\* and at most this many rows of a kind in a form.
MaxProfileOps == 2
MaxFormRows == 2

\* A balance cell of the form: a number, a text that is no number, nothing.
BlankCell == <<"blank">>
TextCell == <<"text">>
NumCell(n) == <<"num", n>>

\* `float(v) if v != "" else None`, None too when float raises.
cast_float(cell) == IF cell[1] = "num" THEN Some(cell[2]) ELSE None

\* collect_group on the rows of a group: the values are stripped, a row whose
\* values are all empty is dropped, the balance is cast.
collect_group(rows) ==
    LET stripped == [i \in 1..Len(rows) |->
                        [rows[i] EXCEPT !.name = Strip(@)]]
        kept     == SelectSeq(stripped,
                              LAMBDA r : ~(/\ r.name = <<>>
                                           /\ r.balance = BlankCell
                                           /\ r.type = ""))
    IN  [i \in 1..Len(kept) |-> [kept[i] EXCEPT !.balance = cast_float(@)]]

VALID_TYPES == {"cash", "checking", "savings", "investment", "retirement"}

\* The accounts loop of onboarding_submit: a row without a valid type is an
\* error; the types are lowered.
accounts_have_errors(accounts) ==
    \E i \in 1..Len(accounts) : Lower(accounts[i].type) \notin VALID_TYPES

\* onboarding_submit: 400 on an accounts error, else the snapshot is written
\* to snapshots/ and to latest.
onboarding_submit(store, form, now) ==
    LET accounts == collect_group(form.accounts)
        debts    == collect_group(form.debts)
        snapshot == [accounts |-> [i \in 1..Len(accounts) |->
                                      [accounts[i] EXCEPT !.type = Lower(@)]],
                     debts    |-> debts]
    IN  IF accounts_have_errors(accounts) THEN [ok |-> FALSE, store |-> store]
        ELSE [ok |-> TRUE,
              store |-> [store EXCEPT
                           !.snapshots = Put(@, Dashed(NowIso(now)), snapshot),
                           !.latest    = snapshot]]

\* `_matches`: the account has the target's name and type.
matches(acct, call) ==
    acct.name = call.target_name /\ acct.type = call.target_type

\* acct.update(changes): the keys of `changes` replace the account's.
updated_account(acct, changes) ==
    [acct EXCEPT !.name    = IF changes.name = None THEN @
                             ELSE changes.name[1],
                 !.balance = IF changes.balance = None THEN @
                             ELSE changes.balance]

\* update_accounts_snapshot: RuntimeError without a latest; "update" changes
\* the first matching account or raises ValueError; "delete" drops the
\* matching accounts; "add" appends new_account or raises when there is
\* none; then the snapshot is written to snapshots/ and to latest.
update_accounts_snapshot(store, call, now) ==
    LET accounts == store.latest.accounts
        hits     == {i \in 1..Len(accounts) : matches(accounts[i], call)}
        first    == CHOOSE i \in hits : \A j \in hits : i <= j
        raises   == \/ call.action = "update" /\ hits = {}
                    \/ call.action = "add" /\ call.new_account = None
                    \/ call.action \notin {"update", "delete", "add"}
        new      == CASE call.action = "update" ->
                            [accounts EXCEPT
                               ![first] = updated_account(@, call.changes)]
                      [] call.action = "delete" ->
                            SelectSeq(accounts, LAMBDA a : ~matches(a, call))
                      [] OTHER -> Append(accounts, call.new_account[1])
        snapshot == [store.latest EXCEPT !.accounts = new]
    IN  IF store.latest = NoResult THEN [ok |-> FALSE, store |-> store]
        ELSE IF raises THEN [ok |-> FALSE, store |-> store]
        ELSE [ok |-> TRUE,
              store |-> [store EXCEPT
                           !.snapshots = Put(@, Dashed(NowIso(now)), snapshot),
                           !.latest    = snapshot]]

\* The rows of the forms: accounts a and b, a second account a, an account
\* without a name, an account of no valid type; a debt d, a debt without a
\* name, an empty row.
FormRow(name, balance, type) ==
    [name |-> name, balance |-> balance, type |-> type]

AccountRows ==
    {FormRow(NameA, NumCell(6), "checking"),
     FormRow(NameASp, NumCell(3), "Savings"),
     FormRow(NameB, TextCell, "cash"),
     FormRow(<<>>, NumCell(3), "cash"),
     FormRow(NameC, NumCell(3), "bogus")}

DebtRows ==
    {FormRow(NameD, NumCell(6), ""),
     FormRow(<<>>, NumCell(6), ""),
     FormRow(<<" ">>, BlankCell, "")}

OnboardingForms ==
    [accounts : UNION {SeqsOf(AccountRows, n) : n \in 0..MaxFormRows},
     debts    : UNION {SeqsOf(DebtRows, n) : n \in 0..MaxFormRows}]

\* The calls of update_accounts_snapshot.
AccountCall(action, name, type, changes, new_account) ==
    [action |-> action, target_name |-> name, target_type |-> type,
     changes |-> changes, new_account |-> new_account]

NoChanges == [name |-> None, balance |-> None]

AccountCalls ==
    {AccountCall("update", NameA, "checking",
                 [name |-> Some(NameB), balance |-> None], None),
     AccountCall("update", NameB, "cash",
                 [name |-> None, balance |-> Some(9)], None),
     AccountCall("delete", NameA, "checking", NoChanges, None),
     AccountCall("add", <<>>, "", NoChanges,
                 Some(FormRow(NameA, Some(3), "cash"))),
     AccountCall("add", <<>>, "", NoChanges, None),
     AccountCall("merge", NameA, "checking", NoChanges, None)}

InitProfile ==
    /\ EmptyStore
    /\ st_latest = NoResult
    /\ LedgerIdle
    /\ PlanIdle
    /\ PayoffIdle
    /\ EstimateIdle
    /\ RaceIdle
    /\ HookIdle

\* POST /onboarding
OnboardingSubmit ==
    /\ st_ops < MaxProfileOps
    /\ \E form \in OnboardingForms :
          Stores("onboarding", form, onboarding_submit(TheStore, form, st_clock))

\* A call of update_accounts_snapshot.
UpdateAccounts ==
    /\ st_ops < MaxProfileOps
    /\ \E call \in AccountCalls :
          Stores("accounts", call,
                 update_accounts_snapshot(TheStore, call, st_clock))

NextProfile == Tick \/ OnboardingSubmit \/ UpdateAccounts

SpecProfile == InitProfile /\ [][NextProfile]_vars

\* The names of a list are not empty and no two items share one.
UniqueNames(items) ==
    /\ \A i \in 1..Len(items) : items[i].name # <<>>
    /\ \A i, j \in 1..Len(items) : i # j => items[i].name # items[j].name

\* C34: after any onboarding submissions and account operations, the
\* accounts of latest have non-empty names, no two of them the same, and so
\* have its debts.
C34_UniqueNames ==
    st_latest # NoResult =>
        /\ UniqueNames(st_latest.accounts)
        /\ UniqueNames(st_latest.debts)

---------------------------------------------------------------------------
(* The ledger as a journal: expenses, incomes and transfers on the         *)
(* accounts of latest are created, each in a second of its own, and        *)
(* deleted; nothing is imported and nothing reverted.                      *)

\* The transactions of the journal: all on the accounts a and b.
JournalTxs ==
    {Tx("expense", 3, NameA, None, None, None, None),
     Tx("income", 3, None, NameB, None, None, None),
     Tx("transfer", 3, NameA, NameB, None, None, None)}

\* POST /ledger/new in a second in which no entry was created yet.
JournalCreate ==
    /\ st_ops < MaxStoreOps
    /\ Dashed(NowIso(st_clock)) \notin DOMAIN st_entries
    /\ \E tx \in JournalTxs :
          Stores("create", NowIso(st_clock), create_entry(TheStore, tx, st_clock))

\* POST /ledger/delete/<entry_id>
JournalDelete ==
    /\ st_ops < MaxStoreOps
    /\ \E id \in DeleteIds : Stores("delete", id, delete_entry(TheStore, id))

NextJournal == Tick \/ JournalCreate \/ JournalDelete

SpecJournal == InitStore /\ [][NextJournal]_vars

\* What an index row did to the balance of the account of a name: an expense
\* or a transfer took its amount from the from-account, an income or a
\* transfer added it to the to-account.
SignedEffect(row, name) ==
    (IF row.kind \in {"expense", "transfer"} /\ row.from_account = name
     THEN 0 - row.amount ELSE 0)
    + (IF row.kind \in {"income", "transfer"} /\ row.to_account = name
       THEN row.amount ELSE 0)

\* The net effect of the rows of the index on the account of a name.
NetEffect(name) ==
    Sum([i \in 1..Len(st_index) |-> SignedEffect(st_index[i], name)])

\* C37: after any run of creates and deletes of expenses, incomes and
\* transfers, every account's balance in latest is its starting balance plus
\* the net effect of the entries the index lists.
C37_LedgerAndSnapshotAgree ==
    \A i \in 1..Len(st_latest.accounts) :
        st_latest.accounts[i].balance
            = StartLatest.accounts[i].balance
                 + NetEffect(st_latest.accounts[i].name)

---------------------------------------------------------------------------
(* The statuses of a plan's steps against its current step, checked under  *)
(* SpecPlan.                                                               *)

\* The statuses of a step that is behind.
Behind == {"pass", "skip"}

\* C38: every step 0..6 below current_step has status pass or skip, and the
\* step at current_step has neither.
C38_StepsAgreeWithCurrent ==
    p_plan # NoResult =>
        /\ \A id \in 0..6 :
              id < p_plan.current_step => p_plan.status[id + 1] \in Behind
        /\ p_plan.status[p_plan.current_step + 1] \notin Behind

---------------------------------------------------------------------------
(* app/blueprints/stripe.py: stripe_webhook, one storage access at a time. *)
(*                                                                         *)
(* The deliveries are checkout.session.completed events of kind "rent"     *)
(* for one owner, tenant and covered month.  Amounts are whole cents.  A   *)
(* receipt id (rcpt_ and ten hex digits of a fresh uuid4) is the number of *)
(* the delivery that made it.  The store's documents are read and written  *)
(* whole; a delivery may end at any storage access (the worker is stopped, *)
(* or the storage call raises), and an event may be delivered again.       *)

\* The number of deliveries.
MaxDeliveries == 3

\* _int_or_zero(v) of a metadata value that is missing or a number
int_or_zero(v) == IF v = None THEN 0 ELSE v[1]

\* The events: the second carries no paid_cents in its metadata.
HookEvents ==
    <<[id |-> "evt_1", md_paid_cents |-> Some(500),
       md_total_cents |-> Some(1000), amount_total |-> 500],
      [id |-> "evt_2", md_paid_cents |-> None,
       md_total_cents |-> None, amount_total |-> 300]>>

\* paid_cents: the metadata's, or else the session's amount_total
paid_cents(event) ==
    IF int_or_zero(event.md_paid_cents) > 0
    THEN int_or_zero(event.md_paid_cents)
    ELSE event.amount_total

\* total_cents: the metadata's, or else paid_cents
total_cents(event) ==
    IF int_or_zero(event.md_total_cents) > 0
    THEN int_or_zero(event.md_total_cents)
    ELSE paid_cents(event)

\* existing_id: the position of the first Stripe receipt of the tenant and
\* month in `receipts`, 0 when there is none.
existing_at(receipts) == IF Len(receipts) = 0 THEN 0 ELSE 1

\* The position in `receipts` of the receipt `receipt_id`, 0 when missing.
receipt_at(receipts, receipt_id) ==
    IF \E i \in 1..Len(receipts) : receipts[i].receipt_id = receipt_id
    THEN CHOOSE i \in 1..Len(receipts) : receipts[i].receipt_id = receipt_id
    ELSE 0

\* receipts[receipt_id] = {...}: the upsert of lines 166-220 on the loaded
\* `receipts`, by delivery d of `event`.
upsert_receipt(receipts, event, d) ==
    LET at == existing_at(receipts)
        prev_paid_cents == IF at = 0 THEN 0 ELSE receipts[at].paid_cents
        new_paid_cents_total == prev_paid_cents + paid_cents(event)
        receipt ==
            [receipt_id |-> IF at = 0 THEN d ELSE receipts[at].receipt_id,
             paid_cents |-> new_paid_cents_total,
             last_payment_cents |-> paid_cents(event),
             event_id |-> event.id,
             status |-> IF /\ total_cents(event) > 0
                           /\ new_paid_cents_total >= total_cents(event)
                        THEN "Paid in full" ELSE "Partial",
             emails |-> IF at = 0 THEN 0 ELSE receipts[at].emails]
    IN  IF at = 0 THEN Append(receipts, receipt)
        ELSE [receipts EXCEPT ![at] = receipt]

\* The deliveries in flight.
Running(d) == w_reqs[d].pc \notin {"done", "dead"}

HookFrame ==
    UNCHANGED <<ledger_vars, import_vars, plan_vars, payoff_vars,
                estimate_vars, race_vars>>

InitHook ==
    /\ HookIdle
    /\ LedgerIdle
    /\ ImportIdle
    /\ PlanIdle
    /\ PayoffIdle
    /\ EstimateIdle
    /\ RaceIdle

\* A delivery arrives and reads its marker (lines 126-131): a marked event
\* is answered at once.
Deliver ==
    /\ Len(w_reqs) < MaxDeliveries
    /\ \E i \in 1..Len(HookEvents) :
          LET event == HookEvents[i]
          IN  w_reqs' = Append(w_reqs,
                  [event |-> event,
                   pc |-> IF event.id \in w_markers THEN "done"
                          ELSE IF paid_cents(event) > 0 THEN "load"
                          ELSE "mark",
                   receipts |-> <<>>,
                   receipt_id |-> 0])
    /\ UNCHANGED <<w_receipts, w_markers>>
    /\ HookFrame

\* receipts = _load_receipts(owner_user_id)
LoadReceipts ==
    /\ \E d \in 1..Len(w_reqs) :
          /\ w_reqs[d].pc = "load"
          /\ w_reqs' = [w_reqs EXCEPT ![d].pc = "save",
                                      ![d].receipts = w_receipts]
    /\ UNCHANGED <<w_receipts, w_markers>>
    /\ HookFrame

\* The upsert and _save_receipts(owner_user_id, receipts) of line 222.
SaveReceipts ==
    /\ \E d \in 1..Len(w_reqs) :
          /\ w_reqs[d].pc = "save"
          /\ LET receipts == upsert_receipt(w_reqs[d].receipts,
                                            w_reqs[d].event, d)
             IN  /\ w_receipts' = receipts
                 /\ w_reqs' = [w_reqs EXCEPT
                        ![d].pc = "mail",
                        ![d].receipts = receipts,
                        ![d].receipt_id =
                            receipts[existing_at(receipts)].receipt_id]
    /\ UNCHANGED w_markers
    /\ HookFrame

\* The mail is sent, and receipts = _load_receipts(owner_user_id) of line 278.
ReloadReceipts ==
    /\ \E d \in 1..Len(w_reqs) :
          /\ w_reqs[d].pc = "mail"
          /\ w_reqs' = [w_reqs EXCEPT ![d].pc = "persist",
                                      ![d].receipts = w_receipts]
    /\ UNCHANGED <<w_receipts, w_markers>>
    /\ HookFrame

\* The mail's outcome is written on the receipt, when the loaded receipts
\* have it (lines 279-305).
PersistEmail ==
    /\ \E d \in 1..Len(w_reqs) :
          /\ w_reqs[d].pc = "persist"
          /\ LET at == receipt_at(w_reqs[d].receipts, w_reqs[d].receipt_id)
             IN  /\ w_receipts' =
                        IF at = 0 THEN w_receipts
                        ELSE [w_reqs[d].receipts EXCEPT
                                 ![at].emails = @ + 1]
                 /\ w_reqs' = [w_reqs EXCEPT ![d].pc = "mark"]
    /\ UNCHANGED w_markers
    /\ HookFrame

\* "Mark processed (after success)", lines 312-317.
MarkProcessed ==
    /\ \E d \in 1..Len(w_reqs) :
          /\ w_reqs[d].pc = "mark"
          /\ w_markers' = w_markers \cup {w_reqs[d].event.id}
          /\ w_reqs' = [w_reqs EXCEPT ![d].pc = "done"]
    /\ UNCHANGED w_receipts
    /\ HookFrame

\* A delivery ends where it is.
Interrupt ==
    /\ \E d \in 1..Len(w_reqs) :
          /\ Running(d)
          /\ w_reqs' = [w_reqs EXCEPT ![d].pc = "dead"]
    /\ UNCHANGED <<w_receipts, w_markers>>
    /\ HookFrame

NextHook ==
    \/ Deliver
    \/ LoadReceipts
    \/ SaveReceipts
    \/ ReloadReceipts
    \/ PersistEmail
    \/ MarkProcessed
    \/ Interrupt

SpecHook == InitHook /\ [][NextHook]_vars

---------------------------------------------------------------------------
(* Properties of the webhook, checked under SpecHook.                      *)

\* An event that was delivered.
Delivered(event) == \E d \in 1..Len(w_reqs) : w_reqs[d].event = event

\* Every delivery is over, and every delivered event was answered.
Settled ==
    /\ \A d \in 1..Len(w_reqs) : ~Running(d)
    /\ \A d \in 1..Len(w_reqs) :
          \E a \in 1..Len(w_reqs) :
              w_reqs[a].event = w_reqs[d].event /\ w_reqs[a].pc = "done"

\* The paid_cents of the tenant's receipt for the month.
ReceiptPaid ==
    IF existing_at(w_receipts) = 0 THEN 0
    ELSE w_receipts[existing_at(w_receipts)].paid_cents

\* The paid_cents of the distinct events delivered.
EventsPaid ==
    Sum([i \in 1..Len(HookEvents) |->
            IF Delivered(HookEvents[i]) THEN paid_cents(HookEvents[i])
            ELSE 0])

\* C39: once the deliveries are over, the receipt's paid_cents is the sum
\* of the paid_cents of the distinct events delivered.
C39_PaidOncePerEvent == Settled => ReceiptPaid = EventsPaid

====
